---- MODULE Spec2Model ----
(***************************************************************************)
(* The MCTS code-review engine of examples/code-review: the Controller,    *)
(* SelectNode, ExpandNode and Simulate event steps, the oracle wrappers of *)
(* shared/actions.py, and the message bus that connects them.              *)
(*                                                                         *)
(* Conventions.  Real numbers are fixed point: evaluation scores are in    *)
(* tenths (0.9 is 9), node values and simulation values in halves (0.5 is  *)
(* 1, 1.0 is 2), so that every quotient value / visits the code takes is   *)
(* the float nearest to an exact rational and float order is rational      *)
(* order; exploration constants are in thousandths (1.414 is 1414).        *)
(* A Python dict of nodes is a sequence of node records                    *)
(* in insertion order, keyed by the record's id.  None is PyNone, a key or *)
(* attribute that is not there is Absent.  An emit that raises is an       *)
(* attempt with ok = FALSE; a handler's emits form a chain in which each   *)
(* later emit is tried only when the one before it raised.                 *)
(***************************************************************************)
EXTENDS Integers, Sequences, FiniteSets, TLC

\* ------------------------------------------------------------------ bounds
MaxIterations == 2
MaxCandidates == 2
MaxEmitFailures == 5

\* --------------------------------------------------------- Python values
PyNone == "<None>"
Absent == "<absent>"

\* "not s" for a value that is a string or None.
Falsy(s) == s \in {PyNone, ""}

\* str(s) for a value that is a string or None.
PyStr(s) == IF s = PyNone THEN "None" ELSE s

\* ------------------------------------------------------------------ topics
ReviewRequested == "review.requested"
IterationStarted == "mcts.iteration.started"
NodeSelected == "mcts.node.selected"
NodeExpanded == "mcts.node.expanded"
SimulationCompleted == "mcts.simulation.completed"
BackpropagationCompleted == "mcts.backpropagation.completed"
ReasoningCompleted == "code-review.reasoning.completed"
ReviewError == "review.error"
CodeReviewError == "code-review.error"

\* The subscriptions of the steps' config blocks.
ControllerSubscribes == {ReviewRequested, BackpropagationCompleted}
SelectNodeSubscribes == {IterationStarted}
ExpandNodeSubscribes == {NodeSelected}
SimulateSubscribes == {NodeExpanded}
BackpropagateSubscribes == {SimulationCompleted}

Subscribed ==
  ControllerSubscribes \cup SelectNodeSubscribes \cup ExpandNodeSubscribes
    \cup SimulateSubscribes \cup BackpropagateSubscribes

\* ------------------------------------------------------------- tree model
Node(id, parent, children, visits, value, state, isTerminal) ==
  [id |-> id, parent |-> parent, children |-> children, visits |-> visits,
   value |-> value, state |-> state, isTerminal |-> isTerminal]

NodeIds(nodes) == {nodes[i].id : i \in DOMAIN nodes}

HasNode(nodes, id) == id \in NodeIds(nodes)

NodeOf(nodes, id) == nodes[CHOOSE i \in DOMAIN nodes : nodes[i].id = id]

\* dict.get(key, default) on a payload, for string-valued and other keys.
StrGet(d, k, default) ==
  IF k \in DOMAIN d THEN (IF d[k] = Absent THEN default ELSE d[k]) ELSE default

NumGet(d, k, default) == IF k \in DOMAIN d THEN d[k] ELSE default

\* None in a numeric field (a key read with .get and no default).
NoneNum == 0 - 999

\* getattr(req, key, default): a dict has no such attribute.
GetAttr(req, k, default) ==
  IF req.kind = "dict" THEN default ELSE StrGet(req.data, k, default)

\* An emit that counts an iteration on every message it sends.
Emit_NextIteration(topic, data) ==
  [topic |-> topic,
   data |-> IF "current_iteration" \in DOMAIN data
              THEN [data EXCEPT !.current_iteration = @ + 1] ELSE data]

\* ------------------------------------------------------------ emit chains
Emit(topic, data) == [topic |-> topic, data |-> data]

\* The attempts a handler makes when its first f emits raise: it walks the
\* chain until one emit succeeds or the chain is exhausted.
Min(a, b) == IF a < b THEN a ELSE b

\* Faulty variant: the handler goes on to its later emits after one succeeded.
TryChain_KeepsGoing(chain, f) ==
  [i \in 1..Len(chain) |->
     [topic |-> chain[i].topic, data |-> chain[i].data, ok |-> i > f]]

TryChain(chain, f) ==
  [i \in 1..Min(Len(chain), f + 1) |->
     [topic |-> chain[i].topic, data |-> chain[i].data, ok |-> i > f]]

\* ------------------------------------------------- oracle: evaluate_commits
\* An agent call either raises or returns a content; the structured content
\* is an Evaluation, but the run may also hand back plain text.
Raise == [kind |-> "raise", score |-> 0, summary |-> ""]

Evaluation(score, summary) ==
  [kind |-> "evaluation", score |-> score, summary |-> summary]

PlainText(text) == [kind |-> "str", score |-> 0, summary |-> text]

UltimateFallbackEvaluation ==
  Evaluation(5, "Unable to complete evaluation due to service error")

\* primary: the system_analysis/code_review agents; fallback: fallback_agent,
\* whose JSON is parsed into an Evaluation or fails to parse.
evaluate_commits(primary, fallback) ==
  IF primary.kind # "raise" THEN primary
  ELSE IF fallback.kind = "evaluation" THEN fallback
  ELSE UltimateFallbackEvaluation

\* ------------------------------------------------------------- Controller
ScoreThreshold == 9

RootId == "root"
ErrorRootId == "error"

Stats(visits, value, total_visits, children_count) ==
  [visits |-> visits, value |-> value, total_visits |-> total_visits,
   children_count |-> children_count]

\* f"Error occurred during code review: {str(error)}"
ErrorState(error) == "Error occurred during code review: " \o error

\* MCTSControllerState declares max_iterations and max_depth int and
\* exploration_constant float: None in one of them fails validation.
StateValidationFails(max_iterations, exploration_constant, max_depth) ==
  NoneNum \in {max_iterations, exploration_constant, max_depth}

\* str(error) of that ValidationError, one clause for each failing field in
\* the order of the fields of the class.
ValidationErrorText(max_iterations, exploration_constant, max_depth) ==
  LET all == <<[bad |-> max_iterations = NoneNum,
                text |-> "MCTSControllerState.max_iterations: Input should be a valid integer, input_value=None"],
               [bad |-> exploration_constant = NoneNum,
                text |-> "MCTSControllerState.exploration_constant: Input should be a valid number, input_value=None"],
               [bad |-> max_depth = NoneNum,
                text |-> "MCTSControllerState.max_depth: Input should be a valid integer, input_value=None"]>>
      clauses == SelectSeq(all, LAMBDA c : c.bad)
      Joined[n \in 0..Len(clauses)] ==
        IF n = 0 THEN ""
        ELSE IF n = 1 THEN clauses[1].text
        ELSE Joined[n - 1] \o "; " \o clauses[n].text
  IN  "ValidationError: " \o Joined[Len(clauses)]

\* The except branch of the Controller: ErrorData is built first, outside the
\* inner try; repository and requirements are declared str, so a None there
\* raises out of the handler before anything is emitted.
ErrorDataRaises(req) ==
  \/ GetAttr(req, "repo_dir", "str(req)") = PyNone
  \/ GetAttr(req, "requirements", "Unknown requirements") = PyNone

ControllerErrorReport(req, error) ==
  Emit(ReasoningCompleted,
       [selected_node_id |-> ErrorRootId,
        state |-> ErrorState(error),
        stats |-> Stats(1, 0, 1, 0),
        all_nodes |-> <<Node(ErrorRootId, PyNone, <<>>, 1, 0, ErrorState(error), TRUE)>>,
        output_url |-> GetAttr(req, "output_url", "file://ERROR-REPORT.md"),
        requirements |-> GetAttr(req, "requirements", "Unknown requirements"),
        repository |-> GetAttr(req, "repo_dir", "Unknown repository"),
        branch |-> GetAttr(req, "branch", "main")])

ControllerReviewError(req, error) ==
  Emit(ReviewError,
       [message |-> error,
        repository |-> GetAttr(req, "repo_dir", "str(req)"),
        output_url |-> GetAttr(req, "output_url", PyNone),
        requirements |-> GetAttr(req, "requirements", "Unknown requirements")])

\* Faulty variant: review.error is sent on any error, as the older
\* controller_step.py does, and the report only if that fails.
ControllerErrorChain_ErrorFirst(req, error) ==
  IF ErrorDataRaises(req) THEN <<>>
  ELSE <<ControllerReviewError(req, error), ControllerErrorReport(req, error)>>

ControllerErrorChain(req, error) ==
  IF ErrorDataRaises(req) THEN <<>>
  ELSE <<ControllerErrorReport(req, error), ControllerReviewError(req, error)>>

\* Faulty variant: the root starts unvisited.
RootNode_Unvisited(summary_state) ==
  Node(RootId, PyNone, <<>>, 0, 0, summary_state, FALSE)

\* The root of a fresh tree: visited once, no value yet.
RootNode(summary_state) == Node(RootId, PyNone, <<>>, 1, 0, summary_state, FALSE)

\* Faulty variants: the max_iterations == 0 test is lost; the threshold is
\* compared with >, as in the older code-review/controller_step.py.
SkipSearch_IgnoresZero(max_iterations, evaluation_score) ==
  evaluation_score >= ScoreThreshold

SkipSearch_StrictThreshold(max_iterations, evaluation_score) ==
  max_iterations = 0 \/ evaluation_score > ScoreThreshold

\* A decision that skips the search for a negative max_iterations too.
SkipSearch_NonPositive(max_iterations, evaluation_score) ==
  max_iterations <= 0 \/ evaluation_score >= ScoreThreshold

\* if skip_mcts or evaluation_score >= 0.9
SkipSearch(max_iterations, evaluation_score) ==
  max_iterations = 0 \/ evaluation_score >= ScoreThreshold

\* The emits of handler(req, context), in the order it tries them.  loader is
\* the outcome of Commits.create, evaluation the result of evaluate_commits.
ControllerChain(req, loader, evaluation) ==
  LET d == req.data
      requirements == StrGet(d, "requirements", PyNone)
      repo_dir == StrGet(d, "repo_dir", PyNone)
      branch == StrGet(d, "branch", PyNone)
      max_iterations == NumGet(d, "max_iterations", 100)
      exploration_constant == NumGet(d, "exploration_constant", 1414)
      max_depth == NumGet(d, "max_depth", 10)
      output_url == StrGet(d, "output_url", PyNone)
      summary_state == evaluation.summary
      evaluation_score == IF evaluation.kind = "evaluation" THEN evaluation.score ELSE 5
      nodes == <<RootNode(summary_state)>>
      state == [nodes |-> nodes, root_id |-> RootId, current_node_id |-> RootId,
                current_iteration |-> 0, max_iterations |-> max_iterations,
                exploration_constant |-> exploration_constant,
                max_depth |-> max_depth, output_url |-> output_url]
      report_data == [selected_node_id |-> RootId,
                      state |-> summary_state,
                      stats |-> Stats(1, evaluation_score, 1, 0),
                      all_nodes |-> nodes,
                      output_url |-> output_url,
                      requirements |-> requirements,
                      repository |-> repo_dir,
                      branch |-> branch]
  IN  IF Falsy(repo_dir) THEN ControllerErrorChain(req, "repo_dir is required")
      ELSE IF Falsy(branch) THEN ControllerErrorChain(req, "branch is required")
      ELSE IF Falsy(requirements) THEN ControllerErrorChain(req, "requirements is required")
      ELSE IF loader = "raise" THEN ControllerErrorChain(req, "Commits.create failed")
      ELSE IF evaluation.kind = "raise" THEN ControllerErrorChain(req, "Evaluation failed")
      ELSE IF StateValidationFails(max_iterations, exploration_constant, max_depth)
        THEN ControllerErrorChain(
               req, ValidationErrorText(max_iterations, exploration_constant, max_depth))
      ELSE IF SkipSearch(max_iterations, evaluation_score)
        THEN <<Emit(ReasoningCompleted, report_data)>>
               \o ControllerErrorChain(req, "emit failed")
        ELSE <<Emit(IterationStarted, state)>>
               \o ControllerErrorChain(req, "emit failed")

ControllerHandler(req, loader, evaluation, f) ==
  TryChain(ControllerChain(req, loader, evaluation), f)

\* --------------------------------------------------------------- Selector
\* A score is kept to twelve decimals of 1000 * score, as the pair
\* <<hi, lo>> with 1000 * score = hi / 10^4 + lo / 10^12 and 0 <= lo < 10^8,
\* so that two scores compare as the floats of the code do wherever visit
\* counts are at most 40, the exploration constant is at most 3.0 and
\* value / visits lies between -1 and 2.  ScoreScale is the base 10^4 of the
\* digits.
ScoreScale == 10 * 1000

\* SqrtLogTable[v][n] is math.sqrt(math.log(v) / n) for v, n in 1..40, cut
\* after twelve decimals and written as three digits <<a, b, c>> of base
\* 10^4: a / 10^4 + b / 10^8 + c / 10^12.
SqrtLogTable ==
  <<
    <<<<0, 0, 0>>, <<0, 0, 0>>, <<0, 0, 0>>, <<0, 0, 0>>,
      <<0, 0, 0>>, <<0, 0, 0>>, <<0, 0, 0>>, <<0, 0, 0>>,
      <<0, 0, 0>>, <<0, 0, 0>>, <<0, 0, 0>>, <<0, 0, 0>>,
      <<0, 0, 0>>, <<0, 0, 0>>, <<0, 0, 0>>, <<0, 0, 0>>,
      <<0, 0, 0>>, <<0, 0, 0>>, <<0, 0, 0>>, <<0, 0, 0>>,
      <<0, 0, 0>>, <<0, 0, 0>>, <<0, 0, 0>>, <<0, 0, 0>>,
      <<0, 0, 0>>, <<0, 0, 0>>, <<0, 0, 0>>, <<0, 0, 0>>,
      <<0, 0, 0>>, <<0, 0, 0>>, <<0, 0, 0>>, <<0, 0, 0>>,
      <<0, 0, 0>>, <<0, 0, 0>>, <<0, 0, 0>>, <<0, 0, 0>>,
      <<0, 0, 0>>, <<0, 0, 0>>, <<0, 0, 0>>, <<0, 0, 0>>>>,
    <<<<8325, 5461, 1157>>, <<5887, 501, 1257>>, <<4806, 7562, 8866>>, <<4162, 7730, 5578>>,
      <<3723, 2974, 1105>>, <<3398, 8899, 6722>>, <<3146, 7606, 4857>>, <<2943, 5250, 5628>>,
      <<2775, 1820, 3719>>, <<2632, 7688, 4773>>, <<2510, 2466, 244>>, <<2403, 3781, 4433>>,
      <<2309, 910, 3088>>, <<2225, 957, 9337>>, <<2149, 6467, 6254>>, <<2081, 3865, 2789>>,
      <<2019, 2415, 2994>>, <<1962, 3500, 3752>>, <<1910, 112, 7106>>, <<1861, 6487, 552>>,
      <<1816, 7831, 753>>, <<1775, 123, 9503>>, <<1735, 9963, 6916>>, <<1699, 4449, 8361>>,
      <<1665, 1092, 2231>>, <<1632, 7739, 2631>>, <<1602, 2520, 9622>>, <<1573, 3803, 2428>>,
      <<1546, 151, 69>>, <<1520, 298, 295>>, <<1495, 3122, 2390>>, <<1471, 7625, 2814>>,
      <<1449, 2915, 5165>>, <<1427, 8193, 7867>>, <<1407, 2741, 4382>>, <<1387, 5910, 1859>>,
      <<1368, 7113, 4950>>, <<1350, 5819, 2190>>, <<1333, 1543, 2826>>, <<1316, 3844, 2386>>>>,
    <<<<10481, 4707, 3968>>, <<7411, 5190, 3683>>, <<6051, 4799, 5305>>, <<5240, 7353, 6984>>,
      <<4687, 4562, 1562>>, <<4279, 425, 1102>>, <<3961, 6235, 6448>>, <<3705, 7595, 1841>>,
      <<3493, 8235, 7989>>, <<3314, 5320, 7658>>, <<3160, 2823, 3587>>, <<3025, 7399, 7652>>,
      <<2907, 369, 3801>>, <<2801, 2908, 8695>>, <<2706, 3041, 790>>, <<2620, 3676, 8492>>,
      <<2542, 1300, 5714>>, <<2470, 5063, 4561>>, <<2404, 6143, 178>>, <<2343, 7281, 781>>,
      <<2287, 2444, 3138>>, <<2234, 6570, 7016>>, <<2185, 5377, 2974>>, <<2139, 5212, 5551>>,
      <<2096, 2941, 4793>>, <<2055, 5855, 3203>>, <<2017, 1599, 8435>>, <<1980, 8117, 8224>>,
      <<1946, 3602, 5359>>, <<1913, 6459, 8665>>, <<1882, 5277, 1788>>, <<1852, 8797, 5920>>,
      <<1824, 5898, 5733>>, <<1797, 5574, 206>>, <<1771, 6919, 1829>>, <<1746, 9117, 8994>>,
      <<1723, 1431, 7507>>, <<1700, 3190, 7893>>, <<1678, 3785, 5870>>, <<1657, 2660, 3829>>>>,
    <<<<11774, 1002, 2515>>, <<8325, 5461, 1157>>, <<6797, 7799, 3445>>, <<5887, 501, 1257>>,
      <<5265, 5376, 9546>>, <<4806, 7562, 8866>>, <<4450, 1915, 8675>>, <<4162, 7730, 5578>>,
      <<3924, 7000, 7505>>, <<3723, 2974, 1105>>, <<3550, 247, 9007>>, <<3398, 8899, 6722>>,
      <<3265, 5478, 5263>>, <<3146, 7606, 4857>>, <<3040, 596, 590>>, <<2943, 5250, 5628>>,
      <<2855, 6387, 5734>>, <<2775, 1820, 3719>>, <<2701, 1638, 4381>>, <<2632, 7688, 4773>>,
      <<2569, 3193, 1056>>, <<2510, 2466, 244>>, <<2455, 696, 949>>, <<2403, 3781, 4433>>,
      <<2354, 8200, 4503>>, <<2309, 910, 3088>>, <<2265, 9266, 4481>>, <<2225, 957, 9337>>,
      <<2186, 3955, 2304>>, <<2149, 6467, 6254>>, <<2114, 6908, 2703>>, <<2081, 3865, 2789>>,
      <<2049, 6077, 6818>>, <<2019, 2415, 2994>>, <<1990, 1861, 8017>>, <<1962, 3500, 3752>>,
      <<1935, 6501, 5344>>, <<1910, 112, 7106>>, <<1885, 3649, 3177>>, <<1861, 6487, 552>>>>,
    <<<<12686, 3624, 1179>>, <<8970, 6128, 8997>>, <<7324, 4747, 5348>>, <<6343, 1812, 589>>,
      <<5673, 5137, 4799>>, <<5179, 1857, 6682>>, <<4794, 9942, 8337>>, <<4485, 3064, 4498>>,
      <<4228, 7874, 7059>>, <<4011, 7800, 4436>>, <<3825, 821, 8858>>, <<3662, 2373, 7674>>,
      <<3518, 5638, 5960>>, <<3390, 5729, 7352>>, <<3275, 6046, 8965>>, <<3171, 5906, 294>>,
      <<3076, 8948, 3698>>, <<2990, 2042, 9665>>, <<2910, 4511, 4284>>, <<2836, 7568, 7399>>,
      <<2768, 3912, 4027>>, <<2704, 7415, 5414>>, <<2645, 2894, 2481>>, <<2589, 5928, 8341>>,
      <<2537, 2724, 8235>>, <<2488, 3, 6516>>, <<2441, 4915, 8449>>, <<2397, 4971, 4168>>,
      <<2355, 7983, 5829>>, <<2316, 2022, 8854>>, <<2278, 5379, 5259>>, <<2242, 6532, 2249>>,
      <<2208, 4122, 3124>>, <<2175, 6932, 422>>, <<2144, 3866, 3387>>, <<2114, 3937, 3529>>,
      <<2085, 6251, 3308>>, <<2057, 9997, 3942>>, <<2031, 4437, 9150>>, <<2005, 8900, 2218>>>>,
    <<<<13385, 6619, 9045>>, <<9465, 923, 6412>>, <<7728, 2155, 5347>>, <<6692, 8309, 9522>>,
      <<5986, 2500, 2690>>, <<5464, 6736, 2433>>, <<5059, 3046, 8010>>, <<4732, 5461, 8206>>,
      <<4461, 8873, 3015>>, <<4232, 9179, 8789>>, <<4035, 9289, 4480>>, <<3864, 1077, 7673>>,
      <<3712, 5146, 6635>>, <<3577, 4686, 4738>>, <<3456, 1630, 6446>>, <<3346, 4154, 9761>>,
      <<3246, 4998, 9738>>, <<3155, 307, 8804>>, <<3070, 8814, 6888>>, <<2993, 1250, 1345>>,
      <<2920, 9909, 1896>>, <<2853, 8327, 2525>>, <<2791, 1034, 6670>>, <<2732, 3368, 1216>>,
      <<2677, 1323, 9809>>, <<2625, 1442, 9583>>, <<2576, 718, 5115>>, <<2529, 6523, 4005>>,
      <<2485, 6550, 3004>>, <<2443, 8763, 3977>>, <<2404, 1358, 6462>>, <<2366, 2730, 9103>>,
      <<2330, 1446, 6271>>, <<2295, 6220, 9255>>, <<2262, 5898, 3671>>, <<2230, 9436, 6507>>,
      <<2200, 5892, 7564>>, <<2171, 4411, 1086>>, <<2143, 4213, 4199>>, <<2116, 4589, 9394>>>>,
    <<<<13949, 5883, 4179>>, <<9863, 8485, 1124>>, <<8053, 7985, 8421>>, <<6974, 7941, 7089>>,
      <<6238, 4455, 5807>>, <<5694, 8955, 9321>>, <<5272, 4488, 630>>, <<4931, 9242, 5562>>,
      <<4649, 8627, 8059>>, <<4411, 2471, 5818>>, <<4205, 9591, 3724>>, <<4026, 8992, 9210>>,
      <<3868, 9196, 9522>>, <<3728, 1843, 439>>, <<3601, 7682, 2228>>, <<3487, 3970, 8544>>,
      <<3383, 2721, 2747>>, <<3287, 9495, 374>>, <<3200, 2550, 4662>>, <<3119, 2227, 7903>>,
      <<3044, 497, 3760>>, <<2974, 622, 2733>>, <<2908, 6902, 3942>>, <<2847, 4477, 9660>>,
      <<2789, 9176, 6835>>, <<2735, 7393, 5236>>, <<2684, 5995, 2807>>, <<2636, 2244, 315>>,
      <<2590, 3735, 2456>>, <<2546, 8347, 3423>>, <<2505, 4200, 2727>>, <<2465, 9621, 2781>>,
      <<2428, 3116, 4008>>, <<2392, 3346, 6393>>, <<2357, 9107, 8775>>, <<2324, 9313, 9029>>,
      <<2293, 2981, 9671>>, <<2262, 9220, 4499>>, <<2233, 7218, 2751>>, <<2205, 6235, 7909>>>>,
    <<<<14420, 2688, 6600>>, <<10196, 6699, 168>>, <<8325, 5461, 1157>>, <<7210, 1344, 3300>>,
      <<6448, 9402, 8764>>, <<5887, 501, 1257>>, <<5450, 3493, 2259>>, <<5098, 3349, 5084>>,
      <<4806, 7562, 8866>>, <<4560, 894, 886>>, <<4347, 8746, 5496>>, <<4162, 7730, 5578>>,
      <<3999, 4629, 8479>>, <<3853, 9789, 6584>>, <<3723, 2974, 1105>>, <<3605, 672, 1650>>,
      <<3497, 4289, 2260>>, <<3398, 8899, 6722>>, <<3308, 2365, 6450>>, <<3224, 4701, 4382>>,
      <<3146, 7606, 4857>>, <<3074, 4116, 5227>>, <<3006, 8339, 1314>>, <<2943, 5250, 5628>>,
      <<2884, 537, 7320>>, <<2828, 473, 9765>>, <<2775, 1820, 3719>>, <<2725, 1746, 6129>>,
      <<2677, 7767, 367>>, <<2632, 7688, 4773>>, <<2589, 9567, 4498>>, <<2549, 1674, 7542>>,
      <<2510, 2466, 244>>, <<2473, 557, 789>>, <<2437, 4703, 1728>>, <<2403, 3781, 4433>>,
      <<2370, 6775, 9824>>, <<2339, 2765, 853>>, <<2309, 910, 3088>>, <<2280, 447, 443>>>>,
    <<<<14823, 380, 7367>>, <<10481, 4707, 3968>>, <<8558, 850, 2204>>, <<7411, 5190, 3683>>,
      <<6629, 641, 5316>>, <<6051, 4799, 5305>>, <<5602, 5817, 7391>>, <<5240, 7353, 6984>>,
      <<4941, 126, 9122>>, <<4687, 4562, 1562>>, <<4469, 3141, 4032>>, <<4279, 425, 1102>>,
      <<4111, 1710, 6406>>, <<3961, 6235, 6448>>, <<3827, 2919, 7330>>, <<3705, 7595, 1841>>,
      <<3595, 1148, 413>>, <<3493, 8235, 7989>>, <<3400, 6381, 5786>>, <<3314, 5320, 7658>>,
      <<3234, 6520, 9532>>, <<3160, 2823, 3587>>, <<3090, 8170, 9847>>, <<3025, 7399, 7652>>,
      <<2964, 6076, 1473>>, <<2907, 369, 3801>>, <<2852, 6950, 734>>, <<2801, 2908, 8695>>,
      <<2752, 5690, 6790>>, <<2706, 3041, 790>>, <<2662, 2962, 3017>>, <<2620, 3676, 8492>>,
      <<2580, 3597, 2200>>, <<2542, 1300, 5714>>, <<2505, 5507, 3919>>, <<2470, 5063, 4561>>,
      <<2436, 8924, 4810>>, <<2404, 6143, 178>>, <<2373, 5857, 2052>>, <<2343, 7281, 781>>>>,
    <<<<15174, 2712, 9385>>, <<10729, 8301, 3144>>, <<8760, 8696, 1626>>, <<7587, 1356, 4692>>,
      <<6786, 1404, 2441>>, <<6194, 8703, 1474>>, <<5735, 3354, 5287>>, <<5364, 9150, 6572>>,
      <<5058, 904, 3128>>, <<4798, 5259, 1218>>, <<4575, 2149, 4079>>, <<4380, 4348, 813>>,
      <<4208, 5856, 3213>>, <<4055, 4945, 9111>>, <<3917, 9800, 79>>, <<3793, 5678, 2346>>,
      <<3680, 3013, 7272>>, <<3576, 6100, 4381>>, <<3481, 2165, 8482>>, <<3393, 702, 1220>>,
      <<3311, 2974, 6761>>, <<3235, 1655, 1002>>, <<3164, 542, 8758>>, <<3097, 4351, 5737>>,
      <<3034, 8542, 5877>>, <<2975, 9194, 3968>>, <<2920, 2898, 7208>>, <<2867, 6677, 2643>>,
      <<2817, 7914, 3950>>, <<2770, 4302, 2711>>, <<2725, 3795, 7876>>, <<2682, 4575, 3286>>,
      <<2641, 5015, 7766>>, <<2602, 3660, 5746>>, <<2564, 9199, 8928>>, <<2529, 452, 1564>>,
      <<2494, 6348, 3380>>, <<2461, 5918, 5391>>, <<2429, 8280, 4762>>, <<2399, 2629, 5609>>>>,
    <<<<15485, 1389, 1703>>, <<10949, 6467, 3585>>, <<8940, 3491, 2218>>, <<7742, 5694, 5851>>,
      <<6925, 1646, 5190>>, <<6321, 7814, 9047>>, <<5852, 8323, 7025>>, <<5474, 8233, 6792>>,
      <<5161, 7129, 7234>>, <<4896, 8308, 8619>>, <<4668, 9450, 5584>>, <<4470, 1745, 6109>>,
      <<4294, 8047, 9792>>, <<4138, 5774, 5815>>, <<3998, 2456, 7595>>, <<3871, 2847, 2925>>,
      <<3755, 6978, 4601>>, <<3649, 8822, 4528>>, <<3552, 5345, 873>>, <<3462, 5823, 2595>>,
      <<3379, 1343, 4448>>, <<3301, 4427, 997>>, <<3228, 8746, 6787>>, <<3160, 8907, 4523>>,
      <<3097, 277, 8340>>, <<3036, 8855, 9648>>, <<2980, 1163, 7406>>, <<2926, 4161, 8512>>,
      <<2875, 5181, 791>>, <<2827, 1866, 3032>>, <<2781, 2130, 5212>>, <<2737, 4116, 8396>>,
      <<2695, 6166, 8482>>, <<2655, 6794, 1500>>, <<2617, 4662, 815>>, <<2580, 8564, 8617>>,
      <<2545, 7411, 5624>>, <<2512, 212, 4152>>, <<2479, 6067, 619>>, <<2448, 4154, 4309>>>>,
    <<<<15763, 5866, 7876>>, <<11146, 5390, 3637>>, <<9101, 1110, 1237>>, <<7881, 7933, 3938>>,
      <<7049, 6902, 7658>>, <<6435, 4573, 1318>>, <<5958, 757, 3177>>, <<5573, 2695, 1818>>,
      <<5254, 5288, 9292>>, <<4984, 8837, 9983>>, <<4752, 9002, 1488>>, <<4550, 5555, 618>>,
      <<4372, 323, 1196>>, <<4212, 9957, 5275>>, <<4070, 1405, 7888>>, <<3940, 8966, 6969>>,
      <<3823, 2313, 4794>>, <<3715, 5130, 1212>>, <<3616, 4148, 634>>, <<3524, 8451, 3829>>,
      <<3439, 8966, 2759>>, <<3360, 8079, 7224>>, <<3286, 9350, 3975>>, <<3217, 7286, 5659>>,
      <<3152, 7173, 3575>>, <<3091, 4936, 9535>>, <<3033, 7036, 7079>>, <<2979, 378, 6588>>,
      <<2927, 2245, 5919>>, <<2878, 240, 371>>, <<2831, 2237, 4646>>, <<2786, 6347, 5909>>,
      <<2744, 882, 1849>>, <<2703, 4328, 1217>>, <<2664, 5324, 7026>>, <<2627, 2644, 4646>>,
      <<2591, 5176, 8628>>, <<2557, 1914, 3314>>, <<2524, 1940, 3221>>, <<2492, 4418, 9991>>>>,
    <<<<16015, 4592, 7365>>, <<11324, 6398, 5621>>, <<9246, 5297, 2284>>, <<8007, 7296, 3682>>,
      <<7162, 3311, 2535>>, <<6538, 2838, 6946>>, <<6053, 2746, 2436>>, <<5662, 3199, 2810>>,
      <<5338, 4864, 2455>>, <<5064, 5329, 784>>, <<4828, 8426, 5963>>, <<4623, 2648, 6142>>,
      <<4441, 8892, 86>>, <<4280, 3115, 3527>>, <<4135, 1738, 324>>, <<4003, 8648, 1841>>,
      <<3884, 3194, 2518>>, <<3774, 8799, 5207>>, <<3674, 1983, 4254>>, <<3581, 1655, 6267>>,
      <<3494, 8597, 3385>>, <<3414, 5073, 8990>>, <<3339, 4541, 630>>, <<3269, 1419, 3473>>,
      <<3203, 918, 5473>>, <<3140, 8899, 7521>>, <<3082, 1765, 7428>>, <<3026, 6373, 1218>>,
      <<2973, 9961, 2588>>, <<2924, 94, 3766>>, <<2876, 4613, 9994>>, <<2831, 1599, 6405>>,
      <<2787, 9336, 941>>, <<2746, 6286, 583>>, <<2707, 1067, 931>>, <<2669, 2432, 1227>>,
      <<2632, 9252, 8581>>, <<2598, 505, 6343>>, <<2564, 5259, 2583>>, <<2532, 2664, 5392>>>>,
    <<<<16245, 1756, 8269>>, <<11487, 738, 8679>>, <<9379, 1565, 5343>>, <<8122, 5878, 4134>>,
      <<7265, 634, 2658>>, <<6632, 652, 74>>, <<6140, 992, 6585>>, <<5743, 5369, 4339>>,
      <<5415, 585, 6089>>, <<5137, 1756, 1468>>, <<4898, 1047, 6299>>, <<4689, 5782, 7671>>,
      <<4505, 6010, 6945>>, <<4341, 7058, 2804>>, <<4194, 4863, 2501>>, <<4061, 2939, 2067>>,
      <<3940, 338, 3802>>, <<3829, 246, 2893>>, <<3726, 8989, 110>>, <<3632, 5317, 1329>>,
      <<3544, 9879, 6399>>, <<3463, 4830, 9287>>, <<3387, 3532, 8873>>, <<3316, 326, 37>>,
      <<3249, 351, 3653>>, <<3185, 9410, 6953>>, <<3126, 3855, 1781>>, <<3070, 496, 3292>>,
      <<3016, 6533, 9214>>, <<2965, 9497, 2401>>, <<2917, 7196, 8496>>, <<2871, 7684, 7169>>,
      <<2827, 9221, 343>>, <<2786, 246, 4497>>, <<2745, 9358, 6940>>, <<2707, 5292, 8044>>,
      <<2670, 6904, 3083>>, <<2635, 3154, 8576>>, <<2601, 3099, 9030>>, <<2568, 5878, 734>>>>,
    <<<<16456, 1544, 7515>>, <<11636, 2584, 2163>>, <<9500, 9652, 1605>>, <<8228, 772, 3757>>,
      <<7359, 4160, 1093>>, <<6718, 1969, 3209>>, <<6219, 8417, 5396>>, <<5818, 1292, 1081>>,
      <<5485, 3848, 2505>>, <<5203, 8929, 6690>>, <<4961, 7172, 6238>>, <<4750, 4826, 802>>,
      <<4564, 1160, 5824>>, <<4398, 922, 8213>>, <<4248, 9608, 1499>>, <<4114, 386, 1878>>,
      <<3991, 2037, 1132>>, <<3878, 7528, 721>>, <<3775, 3007, 5560>>, <<3679, 7080, 546>>,
      <<3591, 273, 1096>>, <<3508, 4639, 2256>>, <<3431, 3454, 802>>, <<3359, 984, 6604>>,
      <<3291, 2308, 9503>>, <<3227, 3174, 1490>>, <<3166, 9884, 535>>, <<3109, 9208, 7698>>,
      <<3055, 8311, 7035>>, <<3004, 4690, 527>>, <<2955, 6125, 9470>>, <<2909, 646, 540>>,
      <<2864, 6487, 9708>>, <<2822, 2072, 937>>, <<2781, 5977, 9422>>, <<2742, 6924, 1252>>,
      <<2705, 3751, 3065>>, <<2669, 5407, 6530>>, <<2635, 936, 3483>>, <<2601, 9464, 8345>>>>,
    <<<<16651, 922, 2315>>, <<11774, 1002, 2515>>, <<9613, 5125, 7733>>, <<8325, 5461, 1157>>,
      <<7446, 5948, 2211>>, <<6797, 7799, 3445>>, <<6293, 5212, 9715>>, <<5887, 501, 1257>>,
      <<5550, 3640, 7438>>, <<5265, 5376, 9546>>, <<5020, 4932, 489>>, <<4806, 7562, 8866>>,
      <<4618, 1820, 6177>>, <<4450, 1915, 8675>>, <<4299, 2935, 2509>>, <<4162, 7730, 5578>>,
      <<4038, 4830, 5988>>, <<3924, 7000, 7505>>, <<3820, 225, 4212>>, <<3723, 2974, 1105>>,
      <<3633, 5662, 1506>>, <<3550, 247, 9007>>, <<3471, 9927, 3832>>, <<3398, 8899, 6722>>,
      <<3330, 2184, 4463>>, <<3265, 5478, 5263>>, <<3204, 5041, 9244>>, <<3146, 7606, 4857>>,
      <<3092, 302, 139>>, <<3040, 596, 590>>, <<2990, 6244, 4781>>, <<2943, 5250, 5628>>,
      <<2898, 5831, 330>>, <<2855, 6387, 5734>>, <<2814, 5482, 8765>>, <<2775, 1820, 3719>>,
      <<2737, 4226, 9901>>, <<2701, 1638, 4381>>, <<2666, 3086, 5653>>, <<2632, 7688, 4773>>>>,
    <<<<16832, 1518, 556>>, <<11902, 1286, 8367>>, <<9718, 473, 7598>>, <<8416, 759, 278>>,
      <<7527, 5671, 2896>>, <<6871, 6971, 9945>>, <<6361, 9553, 8680>>, <<5951, 643, 4183>>,
      <<5610, 7172, 6852>>, <<5322, 7937, 6273>>, <<5075, 847, 2303>>, <<4859, 236, 8799>>,
      <<4668, 3989, 5472>>, <<4498, 5817, 9561>>, <<4346, 429, 825>>, <<4208, 379, 5139>>,
      <<4082, 3964, 5886>>, <<3967, 3762, 2789>>, <<3861, 5604, 5909>>, <<3763, 7835, 6448>>,
      <<3673, 766, 5514>>, <<3588, 6268, 2275>>, <<3509, 7462, 7105>>, <<3435, 8485, 9972>>,
      <<3366, 4303, 6111>>, <<3301, 565, 5816>>, <<3239, 3491, 2532>>, <<3180, 9776, 9340>>,
      <<3125, 6521, 2178>>, <<3073, 1164, 1175>>, <<3023, 1437, 879>>, <<2975, 5321, 7091>>,
      <<2930, 1015, 3100>>, <<2886, 6902, 1955>>, <<2845, 1529, 4294>>, <<2805, 3586, 3426>>,
      <<2767, 1887, 1100>>, <<2730, 5355, 8658>>, <<2695, 3013, 9319>>, <<2661, 3968, 8136>>>>,
    <<<<17001, 933, 7041>>, <<12021, 5884, 980>>, <<9815, 5858, 3392>>, <<8500, 5466, 8520>>,
      <<7603, 1200, 9361>>, <<6940, 6673, 448>>, <<6425, 8092, 9633>>, <<6010, 7942, 490>>,
      <<5667, 311, 2347>>, <<5376, 2177, 7637>>, <<5126, 225, 2140>>, <<4907, 7929, 1696>>,
      <<4715, 2549, 1430>>, <<4543, 7333, 2804>>, <<4389, 6634, 3272>>, <<4250, 2733, 4260>>,
      <<4123, 3708, 689>>, <<4007, 1961, 3660>>, <<3900, 3183, 1217>>, <<3801, 5600, 4680>>,
      <<3709, 9427, 2699>>, <<3624, 6452, 8540>>, <<3544, 9730, 2246>>, <<3470, 3336, 5224>>,
      <<3400, 2186, 7408>>, <<3334, 1887, 2492>>, <<3271, 8619, 4464>>, <<3212, 9046, 4816>>,
      <<3157, 237, 8279>>, <<3103, 9607, 8040>>, <<3053, 4865, 957>>, <<3005, 3971, 245>>,
      <<2959, 5104, 8260>>, <<2915, 6634, 5890>>, <<2873, 7092, 7940>>, <<2833, 5155, 6173>>,
      <<2794, 9625, 3318>>, <<2757, 9415, 2732>>, <<2722, 3536, 9407>>, <<2688, 1088, 8818>>>>,
    <<<<17159, 3676, 4326>>, <<12133, 5052, 2142>>, <<9906, 9655, 2796>>, <<8579, 6838, 2163>>,
      <<7673, 9025, 24>>, <<7005, 2825, 580>>, <<6485, 6313, 4845>>, <<6066, 7526, 1071>>,
      <<5719, 7892, 1442>>, <<5426, 2684, 9609>>, <<5173, 7440, 1022>>, <<4953, 4827, 6398>>,
      <<4759, 1522, 9940>>, <<4586, 339, 677>>, <<4430, 5296, 7425>>, <<4289, 8419, 1081>>,
      <<4161, 7579, 5658>>, <<4044, 5017, 4047>>, <<3936, 6289, 2063>>, <<3836, 9512, 5012>>,
      <<3744, 4810, 489>>, <<3658, 3894, 7375>>, <<3577, 9754, 8972>>, <<3502, 6412, 5290>>,
      <<3431, 8735, 2865>>, <<3365, 2288, 6361>>, <<3302, 3218, 4265>>, <<3242, 8156, 7422>>,
      <<3186, 4145, 7741>>, <<3132, 8575, 7691>>, <<3081, 9134, 815>>, <<3033, 3763, 535>>,
      <<2987, 624, 9702>>, <<2942, 8072, 7275>>, <<2900, 4625, 1443>>, <<2859, 8946, 721>>,
      <<2820, 9826, 6335>>, <<2783, 6170, 479>>, <<2747, 6978, 6117>>, <<2713, 1342, 4804>>>>,
    <<<<17308, 1838, 2602>>, <<12238, 7341, 5340>>, <<9992, 8845, 9113>>, <<8654, 919, 1301>>,
      <<7740, 4551, 2040>>, <<7066, 364, 5800>>, <<6541, 8785, 7854>>, <<6119, 3670, 7670>>,
      <<5769, 3946, 867>>, <<5473, 3283, 511>>, <<5218, 6137, 7758>>, <<4996, 4422, 9556>>,
      <<4800, 4264, 8229>>, <<4625, 8067, 459>>, <<4468, 9538, 4741>>, <<4327, 459, 5650>>,
      <<4197, 8511, 8248>>, <<4079, 5780, 5113>>, <<3970, 7696, 9441>>, <<3870, 2275, 6020>>,
      <<3776, 9553, 5833>>, <<3690, 1171, 9052>>, <<3609, 58, 887>>, <<3533, 182, 2900>>,
      <<3461, 6367, 6520>>, <<3394, 4141, 1822>>, <<3330, 9615, 3037>>, <<3270, 9392, 8927>>,
      <<3214, 490, 4880>>, <<3160, 275, 7031>>, <<3108, 6415, 8360>>, <<3059, 6835, 3835>>,
      <<3012, 9680, 6928>>, <<2968, 3290, 3754>>, <<2925, 6170, 4043>>, <<2884, 6973, 433>>,
      <<2845, 4478, 9309>>, <<2807, 7581, 7744>>, <<2771, 5275, 2178>>, <<2736, 6641, 5255>>>>,
    <<<<17448, 5599, 3405>>, <<12337, 9950, 5131>>, <<10073, 9307, 7489>>, <<8724, 2799, 6702>>,
      <<7803, 2332, 2440>>, <<7123, 3447, 6413>>, <<6594, 9357, 6024>>, <<6168, 9975, 2565>>,
      <<5816, 1866, 4468>>, <<5517, 7191, 2815>>, <<5260, 9387, 6666>>, <<5036, 9653, 8744>>,
      <<4839, 3598, 963>>, <<4663, 3237, 9755>>, <<4505, 1988, 266>>, <<4362, 1399, 8351>>,
      <<4231, 8973, 8959>>, <<4112, 6650, 1710>>, <<4002, 9741, 8225>>, <<3901, 6166, 1220>>,
      <<3807, 5879, 3646>>, <<3720, 454, 7731>>, <<3638, 2762, 5078>>, <<3561, 6723, 8206>>,
      <<3489, 7119, 8681>>, <<3421, 9441, 3799>>, <<3357, 9769, 2496>>, <<3297, 4678, 8012>>,
      <<3240, 1162, 3765>>, <<3185, 6566, 2395>>, <<3133, 8538, 7688>>, <<3084, 4987, 6282>>,
      <<3037, 4044, 1312>>, <<2992, 4033, 4146>>, <<2949, 3449, 3343>>, <<2908, 933, 2234>>,
      <<2868, 5255, 8309>>, <<2830, 5301, 8918>>, <<2794, 56, 8879>>, <<2758, 8595, 6407>>>>,
    <<<<17581, 3607, 3618>>, <<12431, 8993, 9904>>, <<10150, 6033, 5375>>, <<8790, 6803, 6809>>,
      <<7862, 6235, 4861>>, <<7177, 5604, 6457>>, <<6645, 1297, 4543>>, <<6215, 9496, 9952>>,
      <<5860, 4535, 7872>>, <<5559, 7144, 2913>>, <<5300, 9797, 1507>>, <<5075, 3016, 7687>>,
      <<4876, 1921, 2513>>, <<4698, 8163, 486>>, <<4539, 4878, 2232>>, <<4395, 3401, 8404>>,
      <<4264, 1063, 1513>>, <<4143, 9664, 6634>>, <<4033, 4407, 7573>>, <<3931, 3117, 7430>>,
      <<3836, 5674, 4732>>, <<3748, 3587, 346>>, <<3665, 9671, 3223>>, <<3588, 7802, 3228>>,
      <<3516, 2721, 4723>>, <<3447, 9885, 1805>>, <<3383, 5344, 5125>>, <<3322, 5648, 7271>>,
      <<3264, 7767, 2751>>, <<3209, 9026, 2228>>, <<3157, 7056, 506>>, <<3107, 9748, 4976>>,
      <<3060, 5220, 6546>>, <<3015, 1784, 9113>>, <<2971, 7923, 6602>>, <<2930, 2267, 8936>>,
      <<2890, 3579, 47>>, <<2852, 733, 2403>>, <<2815, 2708, 3606>>, <<2779, 8572, 1456>>>>,
    <<<<17707, 3267, 7715>>, <<12520, 9708, 4081>>, <<10223, 3298, 8141>>, <<8853, 6633, 8857>>,
      <<7918, 9572, 7470>>, <<7228, 9858, 8545>>, <<6692, 7404, 3372>>, <<6260, 4854, 2040>>,
      <<5902, 4422, 5905>>, <<5599, 5483, 8886>>, <<5338, 9599, 545>>, <<5111, 6649, 4070>>,
      <<4911, 1288, 1895>>, <<4732, 4821, 4541>>, <<4572, 121, 1425>>, <<4426, 8316, 9428>>,
      <<4294, 6575, 6761>>, <<4173, 6569, 4693>>, <<4062, 3393, 6746>>, <<3959, 4786, 3735>>,
      <<3864, 554, 9102>>, <<3775, 2147, 5363>>, <<3692, 2328, 6745>>, <<3614, 4929, 4272>>,
      <<3541, 4653, 5543>>, <<3472, 6924, 9116>>, <<3407, 7766, 2713>>, <<3346, 3702, 1686>>,
      <<3288, 1680, 3409>>, <<3232, 9007, 6965>>, <<3180, 3297, 7389>>, <<3130, 2427, 1020>>,
      <<3082, 4499, 3860>>, <<3036, 7814, 8893>>, <<2993, 845, 1311>>, <<2951, 2211, 2952>>,
      <<2911, 665, 9004>>, <<2872, 5077, 1421>>, <<2835, 4415, 4564>>, <<2799, 7741, 9443>>>>,
    <<<<17827, 968, 7623>>, <<12605, 6610, 9005>>, <<10292, 4791, 8036>>, <<8913, 5484, 3811>>,
      <<7972, 5200, 9134>>, <<7277, 8818, 2365>>, <<6738, 92, 7611>>, <<6302, 8305, 4502>>,
      <<5942, 3656, 2541>>, <<5637, 4230, 1973>>, <<5375, 719, 4907>>, <<5146, 2395, 9018>>,
      <<4944, 3470, 6768>>, <<4764, 4920, 5083>>, <<4602, 9366, 2085>>, <<4456, 7742, 1905>>,
      <<4323, 7060, 8346>>, <<4201, 8870, 3001>>, <<4089, 8165, 1264>>, <<3986, 2600, 4567>>,
      <<3890, 1914, 6936>>, <<3800, 7498, 2455>>, <<3717, 2066, 5948>>, <<3638, 9409, 1182>>,
      <<3565, 4193, 7524>>, <<3496, 1813, 4010>>, <<3430, 8263, 9345>>, <<3369, 46, 3805>>,
      <<3310, 4087, 8314>>, <<3254, 7676, 9798>>, <<3201, 8411, 1871>>, <<3151, 4152, 7251>>,
      <<3103, 2992, 3671>>, <<3057, 3218, 9147>>, <<3013, 3293, 5488>>, <<2971, 1828, 1270>>,
      <<2930, 7566, 7304>>, <<2891, 9369, 8989>>, <<2854, 6201, 1049>>, <<2818, 7115, 986>>>>,
    <<<<17941, 2257, 7994>>, <<12686, 3624, 1179>>, <<10358, 3715, 3364>>, <<8970, 6128, 8997>>,
      <<8023, 5600, 8872>>, <<7324, 4747, 5348>>, <<6781, 1459, 4705>>, <<6343, 1812, 589>>,
      <<5980, 4085, 9331>>, <<5673, 5137, 4799>>, <<5409, 4831, 828>>, <<5179, 1857, 6682>>,
      <<4976, 7, 3032>>, <<4794, 9942, 8337>>, <<4632, 4045, 7708>>, <<4485, 3064, 4498>>,
      <<4351, 3864, 845>>, <<4228, 7874, 7059>>, <<4115, 9994, 7884>>, <<4011, 7800, 4436>>,
      <<3915, 964, 3794>>, <<3825, 821, 8858>>, <<3741, 41, 8097>>, <<3662, 2373, 7674>>,
      <<3588, 2451, 5598>>, <<3518, 5638, 5960>>, <<3452, 7905, 1121>>, <<3390, 5729, 7352>>,
      <<3331, 6019, 8851>>, <<3275, 6046, 8965>>, <<3222, 3392, 7493>>, <<3171, 5906, 294>>,
      <<3123, 1665, 2874>>, <<3076, 8948, 3698>>, <<3032, 6206, 6059>>, <<2990, 2042, 9665>>,
      <<2949, 5193, 4923>>, <<2910, 4511, 4284>>, <<2872, 8953, 6114>>, <<2836, 7568, 7399>>>>,
    <<<<18050, 1981, 6517>>, <<12763, 4175, 2435>>, <<10421, 2867, 6959>>, <<9025, 990, 8258>>,
      <<8072, 2940, 2093>>, <<7368, 9625, 4346>>, <<6822, 3336, 3721>>, <<6381, 7087, 6217>>,
      <<6016, 7327, 2172>>, <<5707, 9738, 4193>>, <<5442, 3395, 1867>>, <<5210, 6433, 8479>>,
      <<5006, 2242, 3206>>, <<4824, 1183, 7839>>, <<4660, 5411, 2596>>, <<4512, 5495, 4129>>,
      <<4377, 8160, 9402>>, <<4254, 4725, 811>>, <<4140, 9994, 5857>>, <<4036, 1470, 1046>>,
      <<3938, 8761, 6194>>, <<3848, 3151, 7917>>, <<3763, 7264, 9402>>, <<3684, 4812, 7173>>,
      <<3610, 396, 3303>>, <<3539, 9351, 263>>, <<3473, 7622, 5653>>, <<3411, 1668, 1860>>,
      <<3351, 8376, 5244>>, <<3295, 5002, 3416>>, <<3241, 9112, 9309>>, <<3190, 8543, 8108>>,
      <<3142, 1361, 8612>>, <<3095, 5834, 4686>>, <<3051, 403, 5559>>, <<3008, 3663, 6086>>,
      <<2967, 4342, 9901>>, <<2928, 1287, 9804>>, <<2890, 3449, 800>>, <<2853, 9869, 2096>>>>,
    <<<<18154, 4398, 5917>>, <<12837, 1275, 3306>>, <<10481, 4707, 3968>>, <<9077, 2199, 2958>>,
      <<8118, 9123, 2370>>, <<7411, 5190, 3683>>, <<6861, 7332, 9415>>, <<6418, 5637, 6653>>,
      <<6051, 4799, 5305>>, <<5740, 9379, 5995>>, <<5473, 7695, 7199>>, <<5240, 7353, 6984>>,
      <<5035, 1356, 7612>>, <<4851, 9781, 4298>>, <<4687, 4562, 1562>>, <<4538, 6099, 6479>>,
      <<4403, 984, 1842>>, <<4279, 425, 1102>>, <<4164, 9141, 4330>>, <<4059, 4561, 6185>>,
      <<3961, 6235, 6448>>, <<3870, 5395, 8301>>, <<3785, 4623, 8977>>, <<3705, 7595, 1841>>,
      <<3630, 8879, 7183>>, <<3560, 3785, 8078>>, <<3493, 8235, 7989>>, <<3430, 8666, 4707>>,
      <<3371, 1948, 4906>>, <<3314, 5320, 7658>>, <<3260, 6336, 5403>>, <<3209, 2818, 8326>>,
      <<3160, 2823, 3587>>, <<3113, 4607, 4990>>, <<3068, 6604, 1783>>, <<3025, 7399, 7652>>,
      <<2984, 5715, 2794>>, <<2945, 390, 3378>>, <<2907, 369, 3801>>, <<2870, 4689, 7997>>>>,
    <<<<18254, 3269, 1220>>, <<12907, 7583, 4561>>, <<10539, 1405, 5663>>, <<9127, 1634, 5610>>,
      <<8163, 5831, 7183>>, <<7452, 2977, 5547>>, <<6899, 4870, 5150>>, <<6453, 8791, 7280>>,
      <<6084, 7756, 3740>>, <<5772, 5250, 1958>>, <<5503, 8866, 5165>>, <<5269, 5702, 7831>>,
      <<5062, 8393, 6007>>, <<4878, 6740, 8083>>, <<4713, 2469, 4181>>, <<4563, 5817, 2805>>,
      <<4427, 3245, 8726>>, <<4302, 5861, 1520>>, <<4187, 8298, 487>>, <<4081, 7915, 8591>>,
      <<3983, 4207, 645>>, <<3891, 8355, 7427>>, <<3806, 2902, 8010>>, <<3726, 1488, 7773>>,
      <<3650, 8653, 8244>>, <<3579, 9680, 4356>>, <<3513, 468, 5221>>, <<3449, 7435, 2575>>,
      <<3389, 7434, 915>>, <<3332, 7688, 7396>>, <<3278, 5738, 9836>>, <<3226, 9395, 8640>>,
      <<3177, 6704, 3992>>, <<3130, 5912, 3817>>, <<3085, 5444, 1141>>, <<3042, 3878, 1870>>,
      <<3000, 9928, 5830>>, <<2961, 2428, 5348>>, <<2923, 316, 6740>>, <<2886, 2625, 979>>>>,
    <<<<18350, 1929, 9622>>, <<12975, 5459, 371>>, <<10594, 4888, 6605>>, <<9175, 964, 9811>>,
      <<8206, 4557, 8795>>, <<7491, 4349, 2039>>, <<6935, 7210, 2543>>, <<6487, 7729, 5185>>,
      <<6116, 7309, 9874>>, <<5802, 8405, 3717>>, <<5532, 7913, 6355>>, <<5297, 2444, 3302>>,
      <<5089, 4278, 2788>>, <<4904, 2953, 6950>>, <<4737, 9994, 5827>>, <<4587, 5482, 4905>>,
      <<4450, 5755, 2787>>, <<4325, 1819, 6790>>, <<4209, 8229, 9289>>, <<4103, 2278, 9397>>,
      <<4004, 3404, 105>>, <<3912, 2742, 9205>>, <<3826, 2797, 4044>>, <<3745, 7174, 6019>>,
      <<3670, 385, 9924>>, <<3598, 7689, 2945>>, <<3531, 4962, 8868>>, <<3467, 8605, 1271>>,
      <<3407, 5452, 9404>>, <<3350, 2715, 4620>>, <<3295, 7919, 5533>>, <<3243, 8864, 7592>>,
      <<3194, 3585, 8311>>, <<3147, 321, 3594>>, <<3101, 7487, 3716>>, <<3058, 3654, 9937>>,
      <<3016, 7531, 4543>>, <<2976, 7943, 8587>>, <<2938, 3825, 2645>>, <<2901, 4202, 6858>>>>,
    <<<<18442, 3354, 8567>>, <<13040, 7004, 8283>>, <<10647, 6873, 5714>>, <<9221, 1677, 4283>>,
      <<8247, 6631, 6196>>, <<7529, 519, 3418>>, <<6970, 5476, 1290>>, <<6520, 3502, 4141>>,
      <<6147, 4451, 6189>>, <<5831, 9785, 5076>>, <<5560, 5733, 6944>>, <<5323, 8436, 7857>>,
      <<5114, 9835, 5637>>, <<4928, 9214, 8566>>, <<4761, 7905, 4674>>, <<4610, 5838, 7141>>,
      <<4472, 9233, 6414>>, <<4346, 9001, 6094>>, <<4230, 9619, 2973>>, <<4123, 8315, 8098>>,
      <<4024, 4475, 4070>>, <<3931, 9191, 3681>>, <<3845, 4927, 7763>>, <<3764, 5259, 6709>>,
      <<3688, 4670, 9713>>, <<3616, 8395, 5837>>, <<3549, 2291, 1904>>, <<3485, 2738, 645>>,
      <<3424, 6557, 2478>>, <<3367, 943, 8619>>, <<3312, 3412, 3498>>, <<3260, 1751, 2070>>,
      <<3210, 3985, 3169>>, <<3162, 8344, 4251>>, <<3117, 3236, 6056>>, <<3073, 7225, 8094>>,
      <<3031, 9012, 7739>>, <<2991, 7418, 7145>>, <<2953, 1371, 3317>>, <<2915, 9892, 7538>>>>,
    <<<<18531, 204, 9128>>, <<13103, 4102, 5169>>, <<10698, 8896, 6900>>, <<9265, 5102, 4564>>,
      <<8287, 3243, 219>>, <<7565, 2574, 3611>>, <<7004, 673, 9431>>, <<6551, 7051, 2584>>,
      <<6177, 68, 3042>>, <<5860, 232, 1197>>, <<5587, 3129, 472>>, <<5349, 4448, 3450>>,
      <<5139, 5803, 5138>>, <<4952, 6235, 5040>>, <<4784, 6889, 1673>>, <<4632, 7551, 2282>>,
      <<4494, 4326, 3741>>, <<4367, 8034, 1723>>, <<4251, 3076, 6537>>, <<4143, 6621, 5109>>,
      <<4043, 8001, 9552>>, <<3950, 8268, 4354>>, <<3863, 9848, 7962>>, <<3782, 6287, 1805>>,
      <<3706, 2040, 9825>>, <<3634, 2321, 1891>>, <<3566, 2965, 5633>>, <<3502, 336, 9715>>,
      <<3441, 1241, 1689>>, <<3383, 2859, 7888>>, <<3328, 2695, 3220>>, <<3275, 8525, 6292>>,
      <<3225, 8366, 959>>, <<3178, 437, 9550>>, <<3132, 3141, 6253>>, <<3088, 5034, 1521>>,
      <<3046, 4810, 250>>, <<3006, 1284, 7909>>, <<2967, 3380, 9939>>, <<2930, 116, 598>>>>,
    <<<<18616, 4870, 5529>>, <<13163, 8442, 3867>>, <<10748, 2338, 1273>>, <<9308, 2435, 2764>>,
      <<8325, 5461, 1157>>, <<7600, 1490, 1476>>, <<7036, 3707, 1913>>, <<6581, 9221, 1933>>,
      <<6205, 4956, 8509>>, <<5887, 501, 1257>>, <<5613, 820, 4335>>, <<5374, 1169, 636>>,
      <<5163, 2845, 1129>>, <<4975, 4654, 5044>>, <<4806, 7562, 8866>>, <<4654, 1217, 6382>>,
      <<4515, 1613, 2393>>, <<4387, 9480, 7955>>, <<4270, 9150, 3988>>, <<4162, 7730, 5578>>,
      <<4062, 4505, 2881>>, <<3969, 483, 7621>>, <<3881, 8058, 9013>>, <<3800, 745, 738>>,
      <<3723, 2974, 1105>>, <<3650, 9934, 9113>>, <<3582, 7446, 424>>, <<3518, 1853, 5956>>,
      <<3456, 9948, 5940>>, <<3398, 8899, 6722>>, <<3343, 6197, 8024>>, <<3290, 9610, 5966>>,
      <<3240, 7144, 2871>>, <<3192, 7011, 9030>>, <<3146, 7606, 4857>>, <<3102, 7478, 4254>>,
      <<3060, 5316, 1907>>, <<3019, 9929, 8657>>, <<2981, 237, 250>>, <<2943, 5250, 5628>>>>,
    <<<<18698, 9506, 6966>>, <<13222, 1548, 1959>>, <<10795, 8442, 269>>, <<9349, 4753, 3483>>,
      <<8362, 4249, 6105>>, <<7633, 8146, 4435>>, <<7067, 5390, 3568>>, <<6611, 774, 979>>,
      <<6232, 9835, 5655>>, <<5913, 1273, 9712>>, <<5637, 9457, 5860>>, <<5397, 9221, 134>>,
      <<5186, 1558, 283>>, <<4997, 5047, 7843>>, <<4828, 483, 234>>, <<4674, 7376, 6741>>,
      <<4535, 1616, 8819>>, <<4407, 3849, 3986>>, <<4289, 8334, 9049>>, <<4181, 2124, 8052>>,
      <<4080, 4455, 6476>>, <<3986, 6296, 7787>>, <<3899, 7, 4236>>, <<3816, 9073, 2217>>,
      <<3739, 7901, 3393>>, <<3667, 1659, 3647>>, <<3598, 6147, 3423>>, <<3533, 7695, 1784>>,
      <<3472, 3079, 6815>>, <<3413, 9456, 9448>>, <<3358, 4306, 8260>>, <<3305, 5387, 489>>,
      <<3255, 695, 140>>, <<3206, 8435, 8349>>, <<3160, 6995, 4348>>, <<3116, 4917, 7827>>,
      <<3074, 885, 5376>>, <<3033, 3703, 5128>>, <<2994, 2284, 4882>>, <<2956, 5636, 9856>>>>,
    <<<<18778, 6062, 4385>>, <<13278, 4798, 1625>>, <<10841, 8333, 6989>>, <<9389, 3031, 2192>>,
      <<8398, 480, 1679>>, <<7666, 3338, 9634>>, <<7097, 6460, 1280>>, <<6639, 2399, 812>>,
      <<6259, 5354, 1461>>, <<5938, 3167, 140>>, <<5661, 9628, 1788>>, <<5420, 9166, 8494>>,
      <<5208, 2482, 8415>>, <<5018, 7936, 2611>>, <<4848, 6152, 8316>>, <<4694, 6515, 6096>>,
      <<4554, 4810, 266>>, <<4426, 1599, 3875>>, <<4308, 1077, 3249>>, <<4199, 240, 839>>,
      <<4097, 8278, 3610>>, <<4003, 6123, 334>>, <<3915, 6100, 7774>>, <<3833, 1669, 4817>>,
      <<3755, 7212, 4877>>, <<3682, 7876, 7982>>, <<3613, 9444, 5663>>, <<3548, 8230, 640>>,
      <<3487, 996, 3694>>, <<3428, 4887, 4608>>, <<3372, 7372, 4606>>, <<3319, 6199, 5406>>,
      <<3268, 9357, 5704>>, <<3220, 5044, 176>>, <<3174, 1637, 9297>>, <<3129, 7677, 730>>,
      <<3087, 1838, 4949>>, <<3046, 2921, 9173>>, <<3006, 9835, 4886>>, <<2969, 1583, 5070>>>>,
    <<<<18855, 6306, 2188>>, <<13332, 9442, 7628>>, <<10886, 3034, 1528>>, <<9427, 8153, 1094>>,
      <<8432, 4943, 6583>>, <<7697, 7789, 6700>>, <<7126, 7584, 9125>>, <<6666, 4721, 3814>>,
      <<6285, 2102, 729>>, <<5962, 6739, 4839>>, <<5685, 1865, 4166>>, <<5443, 1517, 764>>,
      <<5229, 6110, 295>>, <<5039, 3792, 5704>>, <<4868, 5028, 9205>>, <<4713, 9076, 5547>>,
      <<4573, 1621, 5833>>, <<4444, 3147, 5876>>, <<4325, 7783, 3671>>, <<4216, 2471, 8291>>,
      <<4114, 6359, 3337>>, <<4020, 339, 5592>>, <<3931, 6707, 7079>>, <<3848, 8894, 8350>>,
      <<3771, 1261, 2437>>, <<3697, 8934, 315>>, <<3628, 7678, 509>>, <<3563, 3792, 4562>>,
      <<3501, 4027, 487>>, <<3442, 5514, 919>>, <<3386, 5712, 3274>>, <<3333, 2360, 6907>>,
      <<3282, 3439, 8022>>, <<3233, 7139, 7362>>, <<3187, 1832, 8913>>, <<3142, 6051, 364>>,
      <<3099, 8465, 7924>>, <<3058, 7871, 9579>>, <<3019, 3173, 2031>>, <<2981, 3369, 7419>>>>,
    <<<<18930, 1847, 2824>>, <<13385, 6619, 9045>>, <<10929, 3472, 4866>>, <<9465, 923, 6412>>,
      <<8465, 8359, 7579>>, <<7728, 2155, 5347>>, <<7154, 9372, 9477>>, <<6692, 8309, 9522>>,
      <<6310, 615, 7608>>, <<5986, 2500, 2690>>, <<5707, 6654, 5051>>, <<5464, 6736, 2433>>,
      <<5250, 2885, 9166>>, <<5059, 3046, 8010>>, <<4887, 7526, 7954>>, <<4732, 5461, 8206>>,
      <<4591, 2441, 8511>>, <<4461, 8873, 3015>>, <<4342, 8822, 2173>>, <<4232, 9179, 8789>>,
      <<4130, 9049, 7317>>, <<4035, 9289, 4480>>, <<3947, 2163, 7660>>, <<3864, 1077, 7673>>,
      <<3786, 369, 4564>>, <<3712, 5146, 6635>>, <<3643, 1157, 4955>>, <<3577, 4686, 4738>>,
      <<3515, 2470, 5486>>, <<3456, 1630, 6446>>, <<3399, 9615, 4553>>, <<3346, 4154, 9761>>,
      <<3295, 3221, 8430>>, <<3246, 4998, 9738>>, <<3199, 7852, 3317>>, <<3155, 307, 8804>>,
      <<3112, 1031, 9882>>, <<3070, 8814, 6888>>, <<3031, 2555, 3172>>, <<2993, 1250, 1345>>>>,
    <<<<19002, 4154, 605>>, <<13436, 7367, 9254>>, <<10971, 496, 4994>>, <<9501, 2077, 302>>,
      <<8498, 1385, 1692>>, <<7757, 7036, 420>>, <<7182, 2379, 2485>>, <<6718, 3683, 9627>>,
      <<6334, 1384, 6868>>, <<6009, 913, 7278>>, <<5729, 4438, 1930>>, <<5485, 5248, 2497>>,
      <<5270, 3217, 7724>>, <<5078, 6091, 4075>>, <<4906, 4025, 6035>>, <<4750, 6038, 5151>>,
      <<4608, 7626, 9770>>, <<4478, 9122, 6418>>, <<4359, 4530, 7569>>, <<4249, 692, 5846>>,
      <<4146, 6669, 9929>>, <<4051, 3285, 7705>>, <<3962, 2775, 1406>>, <<3878, 8518, 210>>,
      <<3800, 4830, 8121>>, <<3726, 6802, 6772>>, <<3657, 165, 4998>>, <<3591, 1189, 6242>>,
      <<3528, 6599, 5500>>, <<3469, 3505, 2166>>, <<3412, 9345, 5824>>, <<3359, 1841, 9813>>,
      <<3307, 8959, 3138>>, <<3258, 8873, 5642>>, <<3211, 9944, 4610>>, <<3167, 692, 3434>>,
      <<3123, 9778, 4911>>, <<3082, 5988, 3208>>, <<3042, 8216, 9680>>, <<3004, 5456, 8639>>>>,
    <<<<19072, 4569, 9884>>, <<13486, 2636, 7776>>, <<11011, 4881, 8238>>, <<9536, 2284, 9942>>,
      <<8529, 4620, 6947>>, <<7786, 2979, 6472>>, <<7208, 7111, 5855>>, <<6743, 1318, 3888>>,
      <<6357, 4856, 6628>>, <<6031, 2404, 6919>>, <<5750, 5621, 5412>>, <<5505, 7440, 9119>>,
      <<5289, 7478, 1987>>, <<5097, 3285, 4383>>, <<4924, 4872, 2185>>, <<4768, 1142, 4971>>,
      <<4625, 7502, 7919>>, <<4495, 4212, 2592>>, <<4375, 5217, 1910>>, <<4264, 7310, 3473>>,
      <<4161, 9513, 2790>>, <<4066, 2614, 9481>>, <<3976, 8821, 9574>>, <<3893, 1489, 8236>>,
      <<3814, 4913, 9976>>, <<3740, 4165, 5420>>, <<3670, 4960, 6079>>, <<3604, 3555, 7927>>,
      <<3541, 6663, 5226>>, <<3482, 1383, 843>>, <<3425, 5143, 9966>>, <<3371, 5659, 1944>>,
      <<3320, 886, 767>>, <<3270, 8993, 9049>>, <<3223, 8336, 3613>>, <<3178, 7428, 3314>>,
      <<3135, 4926, 1603>>, <<3093, 9610, 7880>>, <<3054, 373, 2775>>, <<3015, 6202, 3459>>>>,
    <<<<19140, 4327, 1749>>, <<13534, 3297, 6938>>, <<11050, 7339, 8185>>, <<9570, 2163, 5874>>,
      <<8559, 8617, 3501>>, <<7814, 489, 3565>>, <<7234, 4035, 6523>>, <<6767, 1648, 8469>>,
      <<6380, 1442, 3916>>, <<6052, 7362, 7884>>, <<5771, 576, 445>>, <<5525, 3669, 9092>>,
      <<5308, 6008, 9211>>, <<5115, 4958, 1881>>, <<4942, 384, 7693>>, <<4785, 1081, 7937>>,
      <<4642, 2368, 1260>>, <<4511, 4432, 5646>>, <<4391, 1164, 1848>>, <<4279, 9308, 6750>>,
      <<4176, 7848, 4581>>, <<4080, 7539, 6672>>, <<3991, 561, 1288>>, <<3907, 244, 6782>>,
      <<3828, 865, 4349>>, <<3753, 7476, 8942>>, <<3683, 5779, 9395>>, <<3617, 2017, 8261>>,
      <<3554, 2891, 2633>>, <<3494, 5489, 1992>>, <<3437, 7231, 9914>>, <<3383, 5824, 4234>>,
      <<3331, 9216, 6143>>, <<3282, 5571, 3006>>, <<3235, 3236, 2970>>, <<3190, 721, 1958>>,
      <<3146, 6677, 5534>>, <<3104, 9881, 9648>>, <<3064, 9221, 5408>>, <<3026, 3681, 3942>>>>,
    <<<<19206, 4558, 2639>>, <<13581, 151, 5740>>, <<11088, 8524, 4154>>, <<9603, 2279, 1319>>,
      <<8589, 3881, 6693>>, <<7841, 27, 5699>>, <<7259, 3579, 5479>>, <<6790, 5075, 7870>>,
      <<6402, 1519, 4213>>, <<6073, 6146, 1908>>, <<5790, 9643, 2079>>, <<5544, 4262, 2077>>,
      <<5326, 9124, 784>>, <<5133, 1412, 3689>>, <<4959, 855, 7035>>, <<4801, 6139, 5659>>,
      <<4658, 2497, 6858>>, <<4527, 50, 5246>>, <<4406, 2631, 5846>>, <<4294, 6940, 8346>>,
      <<4191, 1922, 6934>>, <<4094, 8301, 4084>>, <<4004, 8228, 8275>>, <<3920, 5013, 7849>>,
      <<3841, 2911, 6527>>, <<3766, 6958, 8637>>, <<3696, 2841, 4718>>, <<3629, 6789, 7739>>,
      <<3566, 5493, 986>>, <<3506, 6030, 3528>>, <<3449, 5812, 9956>>, <<3395, 2537, 8935>>,
      <<3343, 4148, 947>>, <<3293, 8799, 9982>>, <<3246, 4835, 7198>>, <<3201, 759, 7106>>,
      <<3157, 5218, 8758>>, <<3115, 6985, 5904>>, <<3075, 4943, 1262>>, <<3036, 8073, 954>>>>
  >>

Max(a, b) == IF a > b THEN a ELSE b

\* score = child_value / child_visits
\*         + exploration_constant * sqrt(log(current_visits) / child_visits)
\* with child_visits raised to 1 when below 1 and current_visits = max(visits, 1).
\* child_value is in halves, so 1000 * child_value / child_visits is
\* 500 * child_value / child_visits, taken digit by digit.
UCB1(child_value, child_visits0, visits, exploration_constant) ==
  LET child_visits == IF child_visits0 < 1 THEN 1 ELSE child_visits0
      current_visits == Max(visits, 1)
      root == SqrtLogTable[current_visits][child_visits]
      x3 == exploration_constant * root[3]
      x2 == exploration_constant * root[2] + x3 \div ScoreScale
      x1 == exploration_constant * root[1] + x2 \div ScoreScale
      q0 == (500 * child_value) \div child_visits
      r0 == (500 * child_value) % child_visits
      q1 == (r0 * ScoreScale) \div child_visits
      r1 == (r0 * ScoreScale) % child_visits
      q2 == (r1 * ScoreScale) \div child_visits
      r2 == (r1 * ScoreScale) % child_visits
      q3 == (r2 * ScoreScale) \div child_visits
      lo == (q2 + (x2 % ScoreScale)) * ScoreScale + q3 + (x3 % ScoreScale)
      hi == q0 * ScoreScale + q1 + x1 + lo \div (ScoreScale * ScoreScale)
  IN  <<hi, lo % (ScoreScale * ScoreScale)>>

\* score > best_score
ScoreAbove(score, best_score) ==
  score[1] > best_score[1] \/ (score[1] = best_score[1] /\ score[2] > best_score[2])

\* A first loop that keeps the last child with visits == 0, not the first.
FirstUnexplored_Last(nodes, children, i) ==
  LET unvisited == {j \in i..Len(children) :
                      HasNode(nodes, children[j]) /\ NodeOf(nodes, children[j]).visits = 0}
  IN  IF unvisited = {} THEN PyNone
      ELSE children[CHOOSE j \in unvisited : \A l \in unvisited : l <= j]

\* The first loop: the first child that is in nodes and has visits == 0.
RECURSIVE FirstUnexplored(_, _, _)
FirstUnexplored(nodes, children, i) ==
  IF i > Len(children) THEN PyNone
  ELSE IF HasNode(nodes, children[i]) /\ NodeOf(nodes, children[i]).visits = 0
    THEN children[i]
    ELSE FirstUnexplored(nodes, children, i + 1)

RECURSIVE BestChild_Lowest(_, _, _, _, _, _)
\* A second loop that keeps the child with the lowest score.
BestChild_Lowest(nodes, children, visits, exploration_constant, i, best) ==
  IF i > Len(children) THEN best[1]
  ELSE IF ~HasNode(nodes, children[i])
    THEN BestChild_Lowest(nodes, children, visits, exploration_constant, i + 1, best)
    ELSE LET child == NodeOf(nodes, children[i])
             score == UCB1(child.value, child.visits, visits, exploration_constant)
         IN  IF ~best[2] \/ ScoreAbove(best[3], score)
               THEN BestChild_Lowest(nodes, children, visits, exploration_constant,
                                     i + 1, <<children[i], TRUE, score>>)
               ELSE BestChild_Lowest(nodes, children, visits, exploration_constant,
                                     i + 1, best)

RECURSIVE BestChild_LastOnTie(_, _, _, _, _, _)
\* A second loop that replaces the best child on an equal score.
BestChild_LastOnTie(nodes, children, visits, exploration_constant, i, best) ==
  IF i > Len(children) THEN best[1]
  ELSE IF ~HasNode(nodes, children[i])
    THEN BestChild_LastOnTie(nodes, children, visits, exploration_constant, i + 1, best)
    ELSE LET child == NodeOf(nodes, children[i])
             score == UCB1(child.value, child.visits, visits, exploration_constant)
         IN  IF ~best[2] \/ ~ScoreAbove(best[3], score)
               THEN BestChild_LastOnTie(nodes, children, visits, exploration_constant,
                                        i + 1, <<children[i], TRUE, score>>)
               ELSE BestChild_LastOnTie(nodes, children, visits, exploration_constant,
                                        i + 1, best)

\* The second loop: best is <<best_node_id, has_score, best_score>>, where
\* has_score = FALSE stands for best_score = -inf.
RECURSIVE BestChild(_, _, _, _, _, _)
BestChild(nodes, children, visits, exploration_constant, i, best) ==
  IF i > Len(children) THEN best[1]
  ELSE IF ~HasNode(nodes, children[i])
    THEN BestChild(nodes, children, visits, exploration_constant, i + 1, best)
    ELSE LET child == NodeOf(nodes, children[i])
             score == UCB1(child.value, child.visits, visits, exploration_constant)
         IN  IF ~best[2] \/ ScoreAbove(score, best[3])
               THEN BestChild(nodes, children, visits, exploration_constant, i + 1,
                              <<children[i], TRUE, score>>)
               ELSE BestChild(nodes, children, visits, exploration_constant, i + 1, best)

\* What a call of select_node_ucb1 gives when it raises TypeError: None
\* compared with depth, or None multiplied into a score.
Raised == Node("<TypeError>", PyNone, <<>>, 0, 0, "", FALSE)

\* The second loop computes a score, for a child that is in nodes.
ScoresAChild(nodes, children) == \E i \in DOMAIN children : HasNode(nodes, children[i])

RECURSIVE select_node_ucb1_Unbounded(_, _, _, _, _, _)
\* A descent that does not compare depth with max_depth.
select_node_ucb1_Unbounded(nodes, root_id, current_node_id, exploration_constant, max_depth, depth) ==
  LET current_node == NodeOf(nodes, current_node_id)
      children == current_node.children
      unexplored == FirstUnexplored(nodes, children, 1)
      best_node_id == BestChild(nodes, children, current_node.visits,
                                exploration_constant, 1, <<"", FALSE, <<0, 0>>>>)
  IN  IF children = <<>> THEN current_node
      ELSE IF unexplored # PyNone THEN NodeOf(nodes, unexplored)
      ELSE IF exploration_constant = NoneNum /\ ScoresAChild(nodes, children) THEN Raised
      ELSE IF best_node_id # "" /\ HasNode(nodes, best_node_id)
        THEN select_node_ucb1_Unbounded(nodes, root_id, best_node_id,
                                        exploration_constant, max_depth, depth + 1)
        ELSE current_node

RECURSIVE select_node_ucb1_RootOnAbsent(_, _, _, _, _, _)
\* A descent that gives the root when no child of a node is in the map.
select_node_ucb1_RootOnAbsent(nodes, root_id, current_node_id, exploration_constant, max_depth, depth) ==
  LET current_node == NodeOf(nodes, current_node_id)
      children == current_node.children
      unexplored == FirstUnexplored(nodes, children, 1)
      best_node_id == BestChild(nodes, children, current_node.visits,
                                exploration_constant, 1, <<"", FALSE, <<0, 0>>>>)
  IN  IF children = <<>> THEN current_node
      ELSE IF max_depth = NoneNum THEN Raised
      ELSE IF depth >= max_depth THEN current_node
      ELSE IF unexplored # PyNone THEN NodeOf(nodes, unexplored)
      ELSE IF exploration_constant = NoneNum /\ ScoresAChild(nodes, children) THEN Raised
      ELSE IF best_node_id # "" /\ HasNode(nodes, best_node_id)
        THEN select_node_ucb1_RootOnAbsent(nodes, root_id, best_node_id,
                                           exploration_constant, max_depth, depth + 1)
        ELSE NodeOf(nodes, root_id)

RECURSIVE select_node_ucb1(_, _, _, _, _, _)
\* Returns the selected node; the caller has checked current_node_id in nodes.
\* "not children or depth >= max_depth" compares only below a node that has
\* children, and the product with exploration_constant is taken only when
\* the second loop meets a child that is in nodes.
select_node_ucb1(nodes, root_id, current_node_id, exploration_constant, max_depth, depth) ==
  LET current_node == NodeOf(nodes, current_node_id)
      children == current_node.children
      unexplored == FirstUnexplored(nodes, children, 1)
      best_node_id == BestChild(nodes, children, current_node.visits,
                                exploration_constant, 1, <<"", FALSE, <<0, 0>>>>)
  IN  IF children = <<>> THEN current_node
      ELSE IF max_depth = NoneNum THEN Raised
      ELSE IF depth >= max_depth THEN current_node
      ELSE IF unexplored # PyNone THEN NodeOf(nodes, unexplored)
      ELSE IF exploration_constant = NoneNum /\ ScoresAChild(nodes, children) THEN Raised
      ELSE IF best_node_id # "" /\ HasNode(nodes, best_node_id)
        THEN select_node_ucb1(nodes, root_id, best_node_id, exploration_constant,
                              max_depth, depth + 1)
        ELSE current_node

\* ------------------------------------------------- SelectNode: the reports
Nodes(d) == IF "nodes" \in DOMAIN d THEN d.nodes ELSE <<>>

ZeroStats == Stats(0, 0, 0, 0)

\* An error path that publishes review.error and no report.
SelectErrorReportChain_ErrorOnly(input_dict) ==
  <<Emit(ReviewError,
         [error |-> "select error",
          output_url |-> StrGet(input_dict, "output_url", "file://ERROR-REPORT.md")])>>

\* generate_error_report of select_node.step.py: the report, then review.error
\* when emitting the report raised.
SelectErrorReportChain(input_dict) ==
  <<Emit(ReasoningCompleted,
         [selected_node_id |-> StrGet(input_dict, "root_id", "error-node"),
          state |-> "Error occurred during Monte Carlo Tree Search node selection.",
          stats |-> ZeroStats,
          all_nodes |-> Nodes(input_dict),
          output_url |-> StrGet(input_dict, "output_url", "file://ERROR-REPORT.md"),
          requirements |-> StrGet(input_dict, "requirements", "No requirements specified"),
          repository |-> StrGet(input_dict, "repository", "Unknown repository"),
          branch |-> StrGet(input_dict, "branch", "Unknown branch")]),
    Emit(ReviewError,
         [message |-> "Failed to generate error report",
          repository |-> StrGet(input_dict, "repository", "Unknown repository")])>>

\* The best-node scan: nodes in dict order, nodes with visits == 0 skipped,
\* value / max(visits, 1) compared with a strict >, starting from -1.
\* best is <<best_node_id, value, visits>> with the ratio value / visits;
\* values are in halves, so -1 is <<-2, 1>> and two ratios compare as their
\* cross products do.
RECURSIVE BestRatioScan_LastOnTie(_, _, _)
\* A scan that replaces the best node on an equal ratio.
BestRatioScan_LastOnTie(nodes, i, best) ==
  IF i > Len(nodes) THEN best[1]
  ELSE LET node == nodes[i]
           v == Max(node.visits, 1)
       IN  IF node.visits = 0 THEN BestRatioScan_LastOnTie(nodes, i + 1, best)
           ELSE IF node.value * best[3] >= best[2] * v
             THEN BestRatioScan_LastOnTie(nodes, i + 1, <<node.id, node.value, v>>)
             ELSE BestRatioScan_LastOnTie(nodes, i + 1, best)

RECURSIVE BestRatioScan(_, _, _)
BestRatioScan(nodes, i, best) ==
  IF i > Len(nodes) THEN best[1]
  ELSE LET node == nodes[i]
           v == Max(node.visits, 1)
       IN  IF node.visits = 0 THEN BestRatioScan(nodes, i + 1, best)
           ELSE IF node.value * best[3] > best[2] * v
             THEN BestRatioScan(nodes, i + 1, <<node.id, node.value, v>>)
             ELSE BestRatioScan(nodes, i + 1, best)

\* final_node_id = best_node_id if best_node_id else current_node_id
FinalNodeId(nodes, current_node_id) ==
  LET best_node_id == BestRatioScan(nodes, 1, <<PyNone, 0 - 2, 1>>)
  IN  IF Falsy(best_node_id) THEN current_node_id ELSE best_node_id

\* A total that counts the nodes, not their visits.
SumVisits_CountsNodes(nodes, i) == Len(nodes) - i + 1

RECURSIVE SumVisits(_, _)
SumVisits(nodes, i) ==
  IF i > Len(nodes) THEN 0 ELSE nodes[i].visits + SumVisits(nodes, i + 1)

\* The state text of the final report.
FinalReportState(input_dict, selected_node_id) ==
  LET nodes == Nodes(input_dict)
      root_id == StrGet(input_dict, "root_id", PyNone)
  IN  IF HasNode(nodes, selected_node_id)
        THEN LET state == NodeOf(nodes, selected_node_id).state
             IN  IF Falsy(state) THEN "Node statistics and children count" ELSE state
      ELSE IF ~Falsy(root_id) /\ HasNode(nodes, root_id) THEN NodeOf(nodes, root_id).state
      ELSE IF Len(nodes) > 0 THEN nodes[1].state
      ELSE "No state available"

FinalReportStats(input_dict, selected_node_id) ==
  LET nodes == Nodes(input_dict)
  IN  IF HasNode(nodes, selected_node_id)
        THEN LET selected_node == NodeOf(nodes, selected_node_id)
             IN  Stats(selected_node.visits, selected_node.value,
                       SumVisits(nodes, 1), Len(selected_node.children))
        ELSE ZeroStats

\* A final report whose scan counts a visit on the node it selects.
FinalReportChain_CountsVisit(input_dict, selected_node_id) ==
  <<Emit(ReasoningCompleted,
         [selected_node_id |-> selected_node_id,
          state |-> FinalReportState(input_dict, selected_node_id),
          stats |-> FinalReportStats(input_dict, selected_node_id),
          all_nodes |-> [i \in DOMAIN Nodes(input_dict) |->
                           IF Nodes(input_dict)[i].id = selected_node_id
                             THEN [Nodes(input_dict)[i] EXCEPT !.visits = @ + 1]
                             ELSE Nodes(input_dict)[i]],
          output_url |-> StrGet(input_dict, "output_url", "file://Review.md"),
          requirements |-> StrGet(input_dict, "requirements", "No requirements specified"),
          repository |-> StrGet(input_dict, "repository", "Unknown repository"),
          branch |-> StrGet(input_dict, "branch", "Unknown branch")])>>
    \o SelectErrorReportChain(input_dict)

\* generate_final_report: the report; a simpler report when emitting it
\* raised; a basic report when that raised too; then generate_error_report.
FinalReportChain(input_dict, selected_node_id) ==
  LET state == FinalReportState(input_dict, selected_node_id)
      output_url == StrGet(input_dict, "output_url", "file://Review.md")
      requirements == StrGet(input_dict, "requirements", "No requirements specified")
      repository == StrGet(input_dict, "repository", "Unknown repository")
  IN  <<Emit(ReasoningCompleted,
             [selected_node_id |-> selected_node_id,
              state |-> state,
              stats |-> FinalReportStats(input_dict, selected_node_id),
              all_nodes |-> Nodes(input_dict),
              output_url |-> output_url,
              requirements |-> requirements,
              repository |-> repository,
              branch |-> StrGet(input_dict, "branch", "Unknown branch")]),
        Emit(ReasoningCompleted,
             [selected_node_id |-> selected_node_id,
              state |-> state,
              output_url |-> output_url,
              requirements |-> requirements,
              repository |-> repository]),
        Emit(ReasoningCompleted,
             [selected_node_id |-> IF Falsy(selected_node_id) THEN "root"
                                   ELSE selected_node_id,
              state |-> "Code review completed with limited information available.",
              output_url |-> output_url,
              requirements |-> requirements,
              repository |-> repository,
              all_nodes |-> <<>>])>>
      \o SelectErrorReportChain(input_dict)

\* A handler that ends the search only after current_iteration has passed
\* max_iterations.
SelectNodeChain_StrictLimit(input_dict) ==
  LET nodes == Nodes(input_dict)
      root_id == StrGet(input_dict, "root_id", PyNone)
      current_node_id == StrGet(input_dict, "current_node_id", root_id)
      max_iterations == NumGet(input_dict, "max_iterations", 100)
      current_iteration == NumGet(input_dict, "current_iteration", 0)
      selected_id ==
        select_node_ucb1(nodes, root_id, current_node_id,
                         NumGet(input_dict, "exploration_constant", 1414),
                         NumGet(input_dict, "max_depth", 10), 0).id
  IN  IF Len(nodes) = 0 \/ Falsy(root_id) \/ Falsy(current_node_id)
           \/ ~HasNode(nodes, current_node_id)
        THEN SelectErrorReportChain(input_dict)
      ELSE IF selected_id = Raised.id \/ NoneNum \in {current_iteration, max_iterations}
        THEN SelectErrorReportChain(input_dict)
      ELSE IF current_iteration > max_iterations
        THEN FinalReportChain(input_dict, FinalNodeId(nodes, current_node_id))
        ELSE <<Emit(NodeSelected,
                    [input_dict EXCEPT !.current_node_id = selected_id]
                      @@ [selected_node_id |-> selected_id])>>
               \o SelectErrorReportChain(input_dict)

\* ---------------------------------------------------- SelectNode: handler
SelectNodeChain(input_dict) ==
  LET nodes == Nodes(input_dict)
      root_id == StrGet(input_dict, "root_id", PyNone)
      current_node_id == StrGet(input_dict, "current_node_id", root_id)
      max_iterations == NumGet(input_dict, "max_iterations", 100)
      current_iteration == NumGet(input_dict, "current_iteration", 0)
      exploration_constant == NumGet(input_dict, "exploration_constant", 1414)
      max_depth == NumGet(input_dict, "max_depth", 10)
      output_url == StrGet(input_dict, "output_url", PyNone)
      requirements == StrGet(input_dict, "requirements", "No requirements specified")
      repository == StrGet(input_dict, "repository", "Unknown repository")
      branch == StrGet(input_dict, "branch", "Unknown branch")
      event_topic == StrGet(input_dict, "topic", "")
      error_dict == [error |-> "select error", repository |-> repository,
                     branch |-> branch, requirements |-> requirements,
                     output_url |-> output_url]
  IN  IF ~Falsy(event_topic) /\ event_topic # IterationStarted THEN <<>>
      ELSE IF Len(nodes) = 0 THEN SelectErrorReportChain(error_dict)
      ELSE IF Falsy(root_id) THEN SelectErrorReportChain(input_dict)
      ELSE IF Falsy(current_node_id) \/ ~HasNode(nodes, current_node_id)
        THEN SelectErrorReportChain(input_dict)
      ELSE LET selected_node == select_node_ucb1(nodes, root_id, current_node_id,
                                                 exploration_constant, max_depth, 0)
               selected_id == selected_node.id
           IN  IF selected_node = Raised \/ NoneNum \in {current_iteration, max_iterations}
                 THEN SelectErrorReportChain(error_dict)
               ELSE IF current_iteration >= max_iterations
                 THEN FinalReportChain(input_dict, FinalNodeId(nodes, current_node_id))
                 ELSE <<Emit(NodeSelected,
                             [nodes |-> nodes,
                              root_id |-> root_id,
                              current_node_id |-> selected_id,
                              selected_node_id |-> selected_id,
                              current_iteration |-> current_iteration,
                              max_iterations |-> max_iterations,
                              exploration_constant |-> exploration_constant,
                              max_depth |-> max_depth,
                              output_url |-> output_url,
                              requirements |-> requirements,
                              repository |-> repository,
                              branch |-> branch])>>
                      \o SelectErrorReportChain(error_dict)

SelectNodeHandler(input_dict, f) == TryChain(SelectNodeChain(input_dict), f)

\* ----------------------------------------------------- oracle: expand_node
\* An expansion agent call raises, returns a NodeExpansion with its steps, or
\* returns a content that has no steps (plain text).
NodeExpansion(steps) == [kind |-> "expansion", steps |-> steps]

NoSteps == [kind |-> "str", steps |-> <<>>]

ExpansionRaise == [kind |-> "raise", steps |-> <<>>]

FallbackSteps ==
  <<"Analyze code structure", "Review error handling",
    "Consider performance implications">>

\* primary: expansion_agent (its content is returned as it is); fallback:
\* fallback_agent, whose JSON must parse into a NodeExpansion.
expand_node(primary, fallback) ==
  IF primary.kind # "raise" THEN primary
  ELSE IF fallback.kind = "expansion" THEN fallback
  ELSE NodeExpansion(FallbackSteps)

\* -------------------------------------------------------------- Expander
\* uuid.uuid4(): the n-th identifier drawn in the session.
UuidPool ==
  <<"n1", "n2", "n3", "n4", "n5", "n6", "n7", "n8", "n9", "n10", "n11", "n12">>

\* generate_error_report of expand_node.step.py; a failure to emit it is
\* only logged.
ExpandErrorReportChain(error_data) ==
  <<Emit(ReasoningCompleted,
         [selected_node_id |-> "error-node",
          state |-> "Error occurred during Monte Carlo Tree Search node expansion.",
          stats |-> ZeroStats,
          all_nodes |-> <<>>,
          output_url |-> StrGet(error_data, "output_url", "file://ERROR-REPORT.md"),
          requirements |-> StrGet(error_data, "requirements", "No requirements specified"),
          repository |-> StrGet(error_data, "repository", "Unknown repository"),
          branch |-> StrGet(error_data, "branch", "Unknown branch")])>>

\* An expansion that lists every new id twice in the children of its parent.
AppendChildren_Twice(nodes, selected_node_id, new_ids) ==
  [i \in DOMAIN nodes |->
     IF nodes[i].id = selected_node_id
       THEN [nodes[i] EXCEPT !.children = @ \o new_ids \o new_ids]
       ELSE nodes[i]]

\* An expansion that also counts a visit of the node it expands.
AppendChildren_CountsVisit(nodes, selected_node_id, new_ids) ==
  [i \in DOMAIN nodes |->
     IF nodes[i].id = selected_node_id
       THEN [nodes[i] EXCEPT !.children = @ \o new_ids, !.visits = @ + 1]
       ELSE nodes[i]]

\* An expansion that puts the new ids before the children the node had.
AppendChildren_Prepends(nodes, selected_node_id, new_ids) ==
  [i \in DOMAIN nodes |->
     IF nodes[i].id = selected_node_id
       THEN [nodes[i] EXCEPT !.children = new_ids \o @]
       ELSE nodes[i]]

\* selected_node['children'].append(new_node_id) for each new id.
AppendChildren(nodes, selected_node_id, new_ids) ==
  [i \in DOMAIN nodes |->
     IF nodes[i].id = selected_node_id
       THEN [nodes[i] EXCEPT !.children = @ \o new_ids]
       ELSE nodes[i]]

\* New nodes that start with one visit.
NewNodes_Visited(selected_node_id, steps, uuids) ==
  [j \in 1..Len(steps) |->
     Node(UuidPool[uuids + j], selected_node_id, <<>>, 1, 0, steps[j], FALSE)]

\* nodes[new_node_id] = {...} for each step, in step order.
NewNodes(selected_node_id, steps, uuids) ==
  [j \in 1..Len(steps) |->
     Node(UuidPool[uuids + j], selected_node_id, <<>>, 0, 0, steps[j], FALSE)]

\* expansion is what expand_node(node_state) returned (or that it raised);
\* uuids is the number of identifiers drawn so far.
ExpandNodeChain(input_data, expansion, uuids) ==
  LET nodes == Nodes(input_data)
      root_id == StrGet(input_data, "root_id", PyNone)
      selected_node_id == StrGet(input_data, "selected_node_id", PyNone)
      output_url == StrGet(input_data, "output_url", PyNone)
      requirements == StrGet(input_data, "requirements", "No requirements specified")
      repository == StrGet(input_data, "repository", "Unknown repository")
      branch == StrGet(input_data, "branch", "Unknown branch")
      error_data == [error |-> "expand error", output_url |-> output_url,
                     requirements |-> requirements, repository |-> repository]
  IN  IF ~HasNode(nodes, selected_node_id) THEN ExpandErrorReportChain(error_data)
      ELSE IF Falsy(NodeOf(nodes, selected_node_id).state)
        THEN ExpandErrorReportChain(error_data)
      ELSE IF expansion.kind = "raise" THEN ExpandErrorReportChain(error_data)
      ELSE IF expansion.kind # "expansion" \/ Len(expansion.steps) = 0
        THEN ExpandErrorReportChain(error_data)
      ELSE LET created == NewNodes(selected_node_id, expansion.steps, uuids)
               expanded_node_ids == [j \in DOMAIN created |-> created[j].id]
           IN  <<Emit(NodeExpanded,
                      [nodes |-> AppendChildren(nodes, selected_node_id, expanded_node_ids)
                                   \o created,
                       expanded_node_ids |-> expanded_node_ids,
                       root_id |-> root_id,
                       max_iterations |-> NumGet(input_data, "max_iterations", NoneNum),
                       current_iteration |-> NumGet(input_data, "current_iteration", NoneNum),
                       exploration_constant |->
                         NumGet(input_data, "exploration_constant", NoneNum),
                       max_depth |-> NumGet(input_data, "max_depth", NoneNum),
                       output_url |-> output_url,
                       requirements |-> requirements,
                       repository |-> repository,
                       branch |-> branch])>>
                 \o ExpandErrorReportChain(error_data)

\* The identifiers the handler draws: one per step of a usable expansion.
ExpandNodeDraws(input_data, expansion) ==
  LET nodes == Nodes(input_data)
      selected_node_id == StrGet(input_data, "selected_node_id", PyNone)
  IN  IF /\ HasNode(nodes, selected_node_id)
         /\ ~Falsy(NodeOf(nodes, selected_node_id).state)
         /\ expansion.kind = "expansion"
        THEN Len(expansion.steps)
        ELSE 0

ExpandNodeHandler(input_data, expansion, uuids, f) ==
  TryChain(ExpandNodeChain(input_data, expansion, uuids), f)

\* ---------------------------------------------- oracle: evaluate_reasoning
AgentValue(value) == [kind |-> "value", value |-> value]

AgentRaise == [kind |-> "raise", value |-> 0]

\* A SimulationResult without bounds on value.
ValidValue_Any(value) == TRUE

\* SimulationResult declares value with ge=0.0, le=1.0.
ValidValue(value) == 0 <= value /\ value <= 2

SimulationResult(nodeId, value, explanation) ==
  [kind |-> "result", nodeId |-> nodeId, value |-> value, explanation |-> explanation]

SimulationRaise == [kind |-> "raise", nodeId |-> PyNone, value |-> 0, explanation |-> ""]

\* A wrapper whose fallback results name no candidate.
evaluate_reasoning_Anonymous(expanded_states, expanded_node_ids, idx, primary, fallback) ==
  IF Len(expanded_states) = 0 THEN SimulationRaise
  ELSE LET selected_id == IF idx <= Len(expanded_node_ids) THEN expanded_node_ids[idx]
                          ELSE "state_idx"
       IN  IF primary.kind = "value" /\ ValidValue(primary.value)
             THEN SimulationResult(selected_id, primary.value, "explanation")
           ELSE IF fallback.kind = "value" /\ ValidValue(fallback.value)
             THEN SimulationResult("fallback_node", fallback.value, "Fallback evaluation")
           ELSE SimulationResult("fallback_node", 1,
                                 "Fallback evaluation due to service error")

\* idx is random.randrange(len(expanded_states)) + 1; primary the answer of
\* reasoning_eval_agent, fallback the parsed JSON of fallback_agent.
evaluate_reasoning(expanded_states, expanded_node_ids, idx, primary, fallback) ==
  IF Len(expanded_states) = 0 THEN SimulationRaise
  ELSE LET selected_id == IF idx <= Len(expanded_node_ids) THEN expanded_node_ids[idx]
                          ELSE "state_idx"
           node_id == IF Len(expanded_node_ids) > 0 THEN expanded_node_ids[1]
                      ELSE "fallback_node"
       IN  IF primary.kind = "value" /\ ValidValue(primary.value)
             THEN SimulationResult(selected_id, primary.value, "explanation")
           ELSE IF fallback.kind = "value" /\ ValidValue(fallback.value)
             THEN SimulationResult(node_id, fallback.value, "Fallback evaluation")
           ELSE SimulationResult(node_id, 1, "Fallback evaluation due to service error")

\* -------------------------------------------------------------- Simulator
\* str(emit_error): the text of the exception a failing ctx.emit raises.
EmitErrorText == "emit failed"

\* A fallback result that names no node of the tree.
SimulateFallbackChain_Unnamed(nodes, root_id, node_ids, max_iterations, current_iteration, exploration_constant, max_depth, output_url, requirements, repository, branch, reason) ==
  LET selected_id == "fallback-node"
  IN  <<Emit(SimulationCompleted,
             [nodes |-> nodes,
              root_id |-> IF Falsy(root_id) THEN "fallback-root" ELSE root_id,
              simulation_result |->
                [nodeId |-> PyStr(selected_id), value |-> 1,
                 explanation |-> "Fallback evaluation: " \o reason],
              max_iterations |-> IF max_iterations = NoneNum THEN 10 ELSE max_iterations,
              current_iteration |->
                IF current_iteration = NoneNum THEN 1 ELSE current_iteration,
              exploration_constant |->
                IF exploration_constant = NoneNum THEN 1000 ELSE exploration_constant,
              max_depth |-> IF max_depth = NoneNum THEN 5 ELSE max_depth,
              output_path |-> IF Falsy(output_url) THEN "file://Review.md" ELSE output_url,
              requirements |-> PyStr(requirements),
              repository |-> PyStr(repository),
              branch |-> PyStr(branch)]),
        Emit(CodeReviewError,
             [error |-> "Failed to generate simulation results: " \o reason
                          \o ". Additional error: " \o EmitErrorText,
              output_path |-> IF Falsy(output_url) THEN "file://ERROR-REPORT.md"
                              ELSE output_url])>>

\* emit_fallback_result: the fallback result, then code-review.error when
\* emitting it raised.
SimulateFallbackChain(nodes, root_id, node_ids, max_iterations, current_iteration, exploration_constant, max_depth, output_url, requirements, repository, branch, reason) ==
  LET selected_id == IF Len(node_ids) > 0 THEN node_ids[1]
                     ELSE IF Falsy(root_id) THEN "fallback-node" ELSE root_id
  IN  <<Emit(SimulationCompleted,
             [nodes |-> nodes,
              root_id |-> IF Falsy(root_id) THEN "fallback-root" ELSE root_id,
              simulation_result |->
                [nodeId |-> PyStr(selected_id), value |-> 1,
                 explanation |-> "Fallback evaluation: " \o reason],
              max_iterations |-> IF max_iterations = NoneNum THEN 10 ELSE max_iterations,
              current_iteration |->
                IF current_iteration = NoneNum THEN 1 ELSE current_iteration,
              exploration_constant |->
                IF exploration_constant = NoneNum THEN 1000 ELSE exploration_constant,
              max_depth |-> IF max_depth = NoneNum THEN 5 ELSE max_depth,
              output_path |-> IF Falsy(output_url) THEN "file://Review.md" ELSE output_url,
              requirements |-> PyStr(requirements),
              repository |-> PyStr(repository),
              branch |-> PyStr(branch)]),
        Emit(CodeReviewError,
             [error |-> "Failed to generate simulation results: " \o reason
                          \o ". Additional error: " \o EmitErrorText,
              output_path |-> IF Falsy(output_url) THEN "file://ERROR-REPORT.md"
                              ELSE output_url])>>

\* The expanded ids that are in nodes and have a non-empty state, in order.
RECURSIVE ValidExpandedIds(_, _, _)
ValidExpandedIds(nodes, expanded_node_ids, i) ==
  IF i > Len(expanded_node_ids) THEN <<>>
  ELSE LET node_id == expanded_node_ids[i]
           rest == ValidExpandedIds(nodes, expanded_node_ids, i + 1)
       IN  IF HasNode(nodes, node_id) /\ ~Falsy(NodeOf(nodes, node_id).state)
             THEN <<node_id>> \o rest
             ELSE rest

SimulateChain(input_data, idx, primary, fallback) ==
  LET nodes == Nodes(input_data)
      root_id == StrGet(input_data, "root_id", PyNone)
      expanded_node_ids == IF "expanded_node_ids" \in DOMAIN input_data
                           THEN input_data.expanded_node_ids ELSE <<>>
      max_iterations == NumGet(input_data, "max_iterations", NoneNum)
      current_iteration == NumGet(input_data, "current_iteration", NoneNum)
      exploration_constant == NumGet(input_data, "exploration_constant", NoneNum)
      max_depth == NumGet(input_data, "max_depth", NoneNum)
      output_url == StrGet(input_data, "output_url", PyNone)
      requirements == StrGet(input_data, "requirements", "No requirements specified")
      repository == StrGet(input_data, "repository", "Unknown repository")
      branch == StrGet(input_data, "branch", "Unknown branch")
      Fallback(node_ids, reason) ==
        SimulateFallbackChain(nodes, root_id, node_ids, max_iterations,
                              current_iteration, exploration_constant, max_depth,
                              output_url, requirements, repository, branch, reason)
      valid_expanded_ids == ValidExpandedIds(nodes, expanded_node_ids, 1)
      expanded_states ==
        [j \in DOMAIN valid_expanded_ids |-> NodeOf(nodes, valid_expanded_ids[j]).state]
      evaluated == evaluate_reasoning(expanded_states, valid_expanded_ids, idx,
                                      primary, fallback)
      simulation_result ==
        IF evaluated.kind = "raise"
          THEN [nodeId |-> PyStr(IF Len(valid_expanded_ids) > 0
                                   THEN valid_expanded_ids[1] ELSE root_id),
                value |-> 1,
                explanation |->
                  IF Len(valid_expanded_ids) > 0
                    THEN "Fallback evaluation due to error: No expanded states to evaluate"
                    ELSE "Fallback evaluation due to missing or invalid expanded nodes"]
          ELSE [nodeId |-> PyStr(evaluated.nodeId), value |-> evaluated.value,
                explanation |-> evaluated.explanation]
  IN  IF ~HasNode(nodes, root_id)
        THEN Fallback(expanded_node_ids, "Root node not found in tree")
      ELSE IF Len(expanded_node_ids) = 0
        THEN Fallback(<<root_id>>, "No expanded nodes to simulate")
      ELSE IF Falsy(NodeOf(nodes, root_id).state)
        THEN Fallback(expanded_node_ids, "Root node has no state for simulation context")
      ELSE IF Len(expanded_states) = 0
        THEN Fallback(<<root_id>>, "No valid expanded states for simulation")
      ELSE <<Emit(SimulationCompleted,
                  [nodes |-> nodes,
                   root_id |-> root_id,
                   simulation_result |-> simulation_result,
                   max_iterations |-> max_iterations,
                   current_iteration |-> current_iteration,
                   exploration_constant |-> exploration_constant,
                   max_depth |-> max_depth,
                   output_path |-> output_url,
                   requirements |-> requirements,
                   repository |-> repository,
                   branch |-> branch])>>

\* The number of candidates evaluate_reasoning samples from.
SimulateCandidates(input_data) ==
  LET expanded_node_ids == IF "expanded_node_ids" \in DOMAIN input_data
                           THEN input_data.expanded_node_ids ELSE <<>>
  IN  Len(ValidExpandedIds(Nodes(input_data), expanded_node_ids, 1))

\* A handler that makes every emit attempt twice.
SimulateHandler_Twice(input_data, idx, primary, fallback, f) ==
  TryChain(SimulateChain(input_data, idx, primary, fallback), f)
    \o TryChain(SimulateChain(input_data, idx, primary, fallback), f)

SimulateHandler(input_data, idx, primary, fallback, f) ==
  TryChain(SimulateChain(input_data, idx, primary, fallback), f)

\* --------------------------------------------------------- Backpropagator
\* pathToRoot(id): the node and its ancestors, node first; fuel bounds the
\* walk by the number of nodes.
RECURSIVE PathToRoot(_, _, _)
PathToRoot(nodes, id, fuel) ==
  IF fuel = 0 \/ Falsy(id) \/ ~HasNode(nodes, id) THEN {}
  ELSE {id} \cup PathToRoot(nodes, NodeOf(nodes, id).parent, fuel - 1)

\* A backpropagation that updates the simulated node and not its ancestors.
Backprop_LeafOnly(nodes, simulation_result) ==
  [i \in DOMAIN nodes |->
     IF nodes[i].id = simulation_result.nodeId
       THEN [nodes[i] EXCEPT !.visits = @ + 1,
                             !.value = @ + simulation_result.value]
       ELSE nodes[i]]

\* visits += 1; value += simulationResult.value on every node of the path.
Backprop(nodes, simulation_result) ==
  LET path == PathToRoot(nodes, simulation_result.nodeId, Len(nodes))
  IN  [i \in DOMAIN nodes |->
         IF nodes[i].id \in path
           THEN [nodes[i] EXCEPT !.visits = @ + 1,
                                 !.value = @ + simulation_result.value]
           ELSE nodes[i]]

BackpropagateChain(input_data) ==
  <<Emit(BackpropagationCompleted,
         [input_data EXCEPT !.nodes = Backprop(input_data.nodes,
                                               input_data.simulation_result)])>>

BackpropagateHandler(input_data, f) == TryChain(BackpropagateChain(input_data), f)

\* ------------------------------------------------------------------ state
VARIABLES
  request,      \* the review request of the session, NoRequest before it
  bus,          \* emitted messages not yet delivered to their subscriber
  invocations,  \* history: every handler invocation, with its inbound message
  emits,        \* history: every emit attempt, with the invocation that made it
  uuids         \* number of identifiers drawn from uuid4

vars == <<request, bus, invocations, emits, uuids>>

NoRequest == [kind |-> "none", data |-> [max_iterations |-> 0]]

\* ----------------------------------------------------------------- inputs
\* A request arrives as a validated model, as a namespace or as a dict; in
\* the last two a field may be missing, None or empty.
RequestData(repo_dir, branch, requirements, max_iterations, output_url) ==
  [prompt |-> "prompt", repo_dir |-> repo_dir, branch |-> branch,
   requirements |-> requirements, max_iterations |-> max_iterations,
   exploration_constant |-> 1414, max_depth |-> 10, output_url |-> output_url]

MaxIterationChoices == (0 - 1)..MaxIterations

OutputUrls == {PyNone, "file://out.md"}

Requests ==
  {[kind |-> "model", data |-> RequestData("repo", "main", "reqs", n, u)] :
     n \in MaxIterationChoices, u \in OutputUrls}
  \cup
  {[kind |-> k, data |-> RequestData(r, b, q, n, u)] :
     k \in {"namespace", "dict"}, r \in {"repo", "", PyNone, Absent},
     b \in {"main", Absent}, q \in {"reqs", PyNone, Absent},
     n \in MaxIterationChoices \cup {NoneNum}, u \in OutputUrls}

LoaderOutcomes == {"ok", "raise"}

EvaluationAnswers ==
  {Raise, Evaluation(5, "summary"), Evaluation(8, ""), Evaluation(9, "summary"),
   Evaluation(10, "summary"), PlainText("raw text")}

EvaluationFallbacks == {Raise, Evaluation(5, "fallback summary")}

CandidateTexts == {"step", ""}

StepLists == UNION {[1..k -> CandidateTexts] : k \in 0..MaxCandidates}

ExpansionAnswers == {ExpansionRaise, NoSteps} \cup {NodeExpansion(st) : st \in StepLists}

ExpansionFallbacks == {ExpansionRaise, NodeExpansion(<<>>), NodeExpansion(<<"step">>)}

ValueAnswers ==
  {AgentRaise, AgentValue(0 - 1), AgentValue(0), AgentValue(1), AgentValue(2), AgentValue(3)}

ValueFallbacks == {AgentRaise, AgentValue(0 - 1), AgentValue(2), AgentValue(3)}

EmitFailures == 0..MaxEmitFailures

\* ---------------------------------------------------------------- actions
Init ==
  /\ request = NoRequest
  /\ bus = <<>>
  /\ invocations = <<>>
  /\ emits = <<>>
  /\ uuids = 0

RemoveAt(q, i) == [j \in 1..(Len(q) - 1) |-> IF j < i THEN q[j] ELSE q[j + 1]]

\* The messages among the attempts that were emitted and have a subscriber;
\* they are delivered as dicts.
RECURSIVE Delivered(_, _)
Delivered(attempts, i) ==
  IF i > Len(attempts) THEN <<>>
  ELSE IF attempts[i].ok /\ attempts[i].topic \in Subscribed
    THEN <<[topic |-> attempts[i].topic, kind |-> "dict", data |-> attempts[i].data]>>
           \o Delivered(attempts, i + 1)
    ELSE Delivered(attempts, i + 1)

\* One handler invocation: the step consumes message i of the bus, makes its
\* emit attempts and returns.
Invoke(step, i, env, attempts, draws) ==
  /\ bus' = RemoveAt(bus, i) \o Delivered(attempts, 1)
  /\ invocations' = Append(invocations,
                           [step |-> step, topic |-> bus[i].topic,
                            data |-> bus[i].data, env |-> env])
  /\ emits' = emits \o [j \in DOMAIN attempts |->
                          [inv |-> Len(invocations) + 1, step |-> step,
                           topic |-> attempts[j].topic, ok |-> attempts[j].ok,
                           data |-> attempts[j].data]]
  /\ uuids' = uuids + draws
  /\ UNCHANGED request

\* The API step publishes review.requested.
Request ==
  /\ request = NoRequest
  /\ \E req \in Requests :
       /\ request' = req
       /\ bus' = Append(bus, [topic |-> ReviewRequested, kind |-> req.kind,
                              data |-> req.data])
  /\ UNCHANGED <<invocations, emits, uuids>>

Controller ==
  \E i \in DOMAIN bus, loader \in LoaderOutcomes, primary \in EvaluationAnswers,
     fallback \in EvaluationFallbacks, f \in EmitFailures :
    /\ bus[i].topic \in ControllerSubscribes
    /\ LET req == [kind |-> bus[i].kind, data |-> bus[i].data]
           evaluation == evaluate_commits(primary, fallback)
       IN  Invoke("Controller", i, [loader |-> loader, evaluation |-> evaluation],
                  ControllerHandler(req, loader, evaluation, f), 0)

SelectNode ==
  \E i \in DOMAIN bus, f \in EmitFailures :
    /\ bus[i].topic \in SelectNodeSubscribes
    /\ Invoke("SelectNode", i, [f |-> f], SelectNodeHandler(bus[i].data, f), 0)

ExpandNode ==
  \E i \in DOMAIN bus, primary \in ExpansionAnswers, fallback \in ExpansionFallbacks,
     f \in EmitFailures :
    /\ bus[i].topic \in ExpandNodeSubscribes
    /\ LET expansion == expand_node(primary, fallback)
       IN  Invoke("ExpandNode", i, [expansion |-> expansion],
                  ExpandNodeHandler(bus[i].data, expansion, uuids, f),
                  ExpandNodeDraws(bus[i].data, expansion))

Simulate ==
  \E i \in DOMAIN bus, primary \in ValueAnswers, fallback \in ValueFallbacks,
     f \in EmitFailures :
    /\ bus[i].topic \in SimulateSubscribes
    /\ \E idx \in 1..Max(1, SimulateCandidates(bus[i].data)) :
         Invoke("Simulate", i, [idx |-> idx],
                SimulateHandler(bus[i].data, idx, primary, fallback, f), 0)

Backpropagate ==
  \E i \in DOMAIN bus, f \in EmitFailures :
    /\ bus[i].topic \in BackpropagateSubscribes
    /\ Invoke("Backpropagate", i, [f |-> f], BackpropagateHandler(bus[i].data, f), 0)

Next ==
  \/ Request
  \/ Controller
  \/ SelectNode
  \/ ExpandNode
  \/ Simulate
  \/ Backpropagate

Spec == Init /\ [][Next]_vars

\* ---------------------------------------------------------- message inputs
\* Trees a session can have built: the root and up to n further nodes, each
\* attached to the root or to a node made before it, children in the order
\* they were made; every node carries visit and value counters.
MaxTreeNodes == 3
MaxSessionNodes == 1

TreeIds == <<"a", "b", "c", "d", "e">>

\* <<visits, value>> of a node that is not the root, values in halves.
StatChoices == {<<0, 0>>, <<1, 1>>, <<2, 2>>}

RootStat == <<3, 3>>

IdAt(i) == IF i = 0 THEN RootId ELSE TreeIds[i]

RECURSIVE ChildrenFrom(_, _, _, _)
\* The ids of the nodes i..n whose parent is node j, in the order made.
ChildrenFrom(parents, j, i, n) ==
  IF i > n THEN <<>>
  ELSE IF parents[i] = j THEN <<IdAt(i)>> \o ChildrenFrom(parents, j, i + 1, n)
  ELSE ChildrenFrom(parents, j, i + 1, n)

\* The nodes dict of the tree with n nodes below the root, parents[i] the
\* index of the parent of node i and stats[i] its counters.
TreeOf(n, parents, stats) ==
  <<Node(RootId, PyNone, ChildrenFrom(parents, 0, 1, n), RootStat[1], RootStat[2],
         "summary", FALSE)>>
  \o [i \in 1..n |->
        Node(IdAt(i), IdAt(parents[i]), ChildrenFrom(parents, i, 1, n),
             stats[i][1], stats[i][2], "step", FALSE)]

Trees(max) ==
  UNION {{TreeOf(n, parents, stats) :
            parents \in {q \in [1..n -> 0..max] : \A i \in 1..n : q[i] < i},
            stats \in [1..n -> StatChoices]} : n \in 0..max}

\* The payload of mcts.iteration.started, as the Controller dumps its state.
IterationMessage(nodes, root_id, current_node_id, current_iteration, max_iterations, exploration_constant, max_depth) ==
  [nodes |-> nodes, root_id |-> root_id, current_node_id |-> current_node_id,
   current_iteration |-> current_iteration, max_iterations |-> max_iterations,
   exploration_constant |-> exploration_constant, max_depth |-> max_depth,
   output_url |-> PyNone]

ExplorationConstants == {0, 1414}

MaxDepths == {0, 1, 2}

\* The scenario tree: root(10, 5.0) with children c1(5, 2.5) and c2(4, 3.0).
ScenarioTree ==
  <<Node(RootId, PyNone, <<"c1", "c2">>, 10, 10, "summary", FALSE),
    Node("c1", RootId, <<>>, 5, 5, "step", FALSE),
    Node("c2", RootId, <<>>, 4, 6, "step", FALSE)>>

\* <<current_iteration, max_iterations, exploration_constant, max_depth>>
\* with None in one place.
NoneNumbers ==
  {<<NoneNum, 2, 1414, 2>>, <<0, NoneNum, 1414, 2>>, <<0, 2, NoneNum, 2>>,
   <<0, 2, 1414, NoneNum>>}

\* Well-formed iteration.started messages over every tree, the scenario,
\* messages whose tree, root id or current node id is missing or wrong, and
\* messages with None for a number.
SelectMessages ==
  {IterationMessage(t, RootId, RootId, 0, 2, c, d) :
     t \in Trees(MaxTreeNodes), c \in ExplorationConstants, d \in MaxDepths}
  \cup {IterationMessage(ScenarioTree, RootId, RootId, 0, 2, 1400, 10)}
  \cup {IterationMessage(t, r, cur, 0, 2, 1414, 2) :
          t \in Trees(1) \cup {<<>>}, r \in {RootId, PyNone, Absent},
          cur \in {RootId, "a", "gone", PyNone, Absent}}
  \cup {IterationMessage(t, RootId, RootId, 2, 2, 1414, 2) : t \in Trees(1)}
  \cup {IterationMessage(t, RootId, RootId, q[1], q[2], q[3], q[4]) :
          t \in {ScenarioTree, TreeOf(0, <<>>, <<>>)}, q \in NoneNumbers}

Injected == [kind |-> "injected", data |-> [max_iterations |-> 0]]

InjectedInit(messages, topic) ==
  /\ request = Injected
  /\ bus \in {<<[topic |-> topic, kind |-> "dict", data |-> m]>> : m \in messages}
  /\ invocations = <<>>
  /\ emits = <<>>
  /\ uuids = 0

\* The Selector alone, on every message of SelectMessages.
SelectInit == InjectedInit(SelectMessages, IterationStarted)

SelectSpec == SelectInit /\ [][SelectNode]_vars

\* One iteration, select to backpropagation, from the trees a session can
\* hold when the iteration starts.
TreeMessages ==
  {IterationMessage(t, RootId, RootId, 0, 2, c, d) :
     t \in Trees(MaxSessionNodes), c \in ExplorationConstants, d \in {0, 2}}

TreeInit == InjectedInit(TreeMessages, IterationStarted)

TreeNext ==
  \/ SelectNode
  \/ ExpandNode
  \/ Simulate
  \/ Backpropagate

TreeSpec == TreeInit /\ [][TreeNext]_vars

\* ------------------------------------------------------- the oracle alone
\* One call of a wrapper of shared/actions.py, with the answers of its
\* agents drawn; the call and what it returned are recorded as an invocation.
OracleCall(name, args, result) ==
  /\ invocations' = <<[step |-> name, topic |-> "", data |-> args,
                       env |-> [result |-> result]]>>
  /\ UNCHANGED <<request, bus, emits, uuids>>

CallExpandNode ==
  \E primary \in ExpansionAnswers, fallback \in ExpansionFallbacks :
    /\ invocations = <<>>
    /\ OracleCall("expand_node", [primary |-> primary, fallback |-> fallback],
                  expand_node(primary, fallback))

CallEvaluateCommits ==
  \E primary \in EvaluationAnswers, fallback \in EvaluationFallbacks :
    /\ invocations = <<>>
    /\ OracleCall("evaluate_commits", [primary |-> primary, fallback |-> fallback],
                  evaluate_commits(primary, fallback))

\* The candidate states handed to evaluate_reasoning, none included.
StateLists == UNION {[1..n -> {"step", "other"}] : n \in 0..MaxCandidates}

\* The ids handed with them: one per state, or none.
IdLists(n) == {<<>>, [i \in 1..n |-> UuidPool[i]]}

CallEvaluateReasoning ==
  \E expanded_states \in StateLists, primary \in ValueAnswers, fallback \in ValueFallbacks :
    \E expanded_node_ids \in IdLists(Len(expanded_states)),
       idx \in 1..Max(1, Len(expanded_states)) :
      /\ invocations = <<>>
      /\ OracleCall("evaluate_reasoning",
                    [expanded_states |-> expanded_states,
                     expanded_node_ids |-> expanded_node_ids, idx |-> idx,
                     primary |-> primary, fallback |-> fallback],
                    evaluate_reasoning(expanded_states, expanded_node_ids, idx,
                                       primary, fallback))

OracleInit ==
  /\ request = Injected
  /\ bus = <<>>
  /\ invocations = <<>>
  /\ emits = <<>>
  /\ uuids = 0

OracleNext ==
  \/ CallExpandNode
  \/ CallEvaluateCommits
  \/ CallEvaluateReasoning

OracleSpec == OracleInit /\ [][OracleNext]_vars

\* ------------------------------------------------- the Simulator alone
\* Trees for mcts.node.expanded: a root and two nodes below it, each with a
\* state or an empty one.
SimulateTrees ==
  {<<Node(RootId, PyNone, <<"a", "b">>, 1, 5, root_state, FALSE),
     Node("a", RootId, <<>>, 0, 0, a_state, FALSE),
     Node("b", RootId, <<>>, 0, 0, b_state, FALSE)>> :
     root_state \in {"summary", ""}, a_state \in {"step", ""}, b_state \in {"other", ""}}

\* expanded_node_ids: up to MaxCandidates ids, "zz" being in no tree.
ExpandedIdLists == UNION {[1..n -> {"a", "b", "zz"}] : n \in 0..MaxCandidates}

\* The payload of mcts.node.expanded, as the Expander writes it.
ExpandedMessage(nodes, root_id, expanded_node_ids) ==
  [nodes |-> nodes, expanded_node_ids |-> expanded_node_ids, root_id |-> root_id,
   max_iterations |-> 2, current_iteration |-> 0, exploration_constant |-> 1414,
   max_depth |-> 10, output_url |-> PyNone,
   requirements |-> "No requirements specified", repository |-> "Unknown repository",
   branch |-> "Unknown branch"]

\* Messages with the root in the tree, not in the tree, or not named.
SimulateMessages ==
  {ExpandedMessage(nodes, root_id, expanded_node_ids) :
     nodes \in SimulateTrees, root_id \in {RootId, "gone", PyNone},
     expanded_node_ids \in ExpandedIdLists}

SimulateInit == InjectedInit(SimulateMessages, NodeExpanded)

SimulateSpec == SimulateInit /\ [][Simulate]_vars

\* ------------------------------------------------ finalization alone
\* Trees at the last iteration: up to MaxFinalNodes nodes below a root that
\* is unvisited, worse than, or as good as a visited child, the first node
\* below the root with or without a state.
MaxFinalNodes == 2

FinalRootStats == {<<0, 0>>, <<2, 1>>, <<1, 1>>}

FinalTreeOf(tree, root_stat, a_state) ==
  [i \in DOMAIN tree |->
     IF tree[i].id = RootId
       THEN [tree[i] EXCEPT !.visits = root_stat[1], !.value = root_stat[2]]
     ELSE IF tree[i].id = IdAt(1) THEN [tree[i] EXCEPT !.state = a_state]
     ELSE tree[i]]

\* mcts.iteration.started with current_iteration = max_iterations.
FinalMessages ==
  {IterationMessage(FinalTreeOf(tree, root_stat, a_state), RootId, current_node_id, 2, 2, 1414, 2) :
     tree \in Trees(MaxFinalNodes), root_stat \in FinalRootStats,
     a_state \in {"step", ""}, current_node_id \in {RootId, IdAt(1)}}

FinalInit == InjectedInit(FinalMessages, IterationStarted)

FinalSpec == FinalInit /\ [][SelectNode]_vars

\* ------------------------------------------------------ the descent alone
MaxLooseChildren == 2

\* Children lists over ids in and out of the map, in any order.
LooseChildren(ids) == UNION {[1..n -> ids] : n \in 0..MaxLooseChildren}

\* Node maps whose children links may name ids that are not keys, may skip
\* nodes and may lead back up: the root, and a and b or one of them or none.
LooseMaps ==
  {SelectSeq(<<Node(RootId, PyNone, root_children, 2, 2, "summary", FALSE),
               Node("a", RootId, a_children, a_visits, a_visits, "step", FALSE),
               Node("b", RootId, b_children, b_visits, b_visits, "step", FALSE)>>,
             LAMBDA node : node.id \in present) :
     root_children \in LooseChildren({"a", "b", "zz"}),
     a_children \in {<<>>, <<"b">>, <<"zz">>, <<RootId>>, <<"zz", "b">>},
     b_children \in {<<>>, <<"zz">>},
     a_visits \in {0, 1}, b_visits \in {0, 2},
     present \in {{RootId}, {RootId, "a"}, {RootId, "b"}, {RootId, "a", "b"}}}

\* One call of select_node_ucb1 from a node of the map, recorded with the
\* node it returned.
CallSelectNodeUcb1 ==
  \E nodes \in LooseMaps, max_depth \in {1, 3} :
    \E current_node_id \in NodeIds(nodes) :
      /\ invocations = <<>>
      /\ OracleCall("select_node_ucb1",
                    [nodes |-> nodes, root_id |-> RootId,
                     current_node_id |-> current_node_id,
                     exploration_constant |-> 1414, max_depth |-> max_depth],
                    select_node_ucb1(nodes, RootId, current_node_id, 1414, max_depth, 0))

DescentSpec == OracleInit /\ [][CallSelectNodeUcb1]_vars

\* -------------------------------------------------------------- observers
\* The emit attempts of invocation k, and those among them that succeeded.
EmitsOf(k) == {j \in DOMAIN emits : emits[j].inv = k}

OkEmitsOf(k) == {j \in EmitsOf(k) : emits[j].ok}

OkEmits(topic) == {j \in DOMAIN emits : emits[j].ok /\ emits[j].topic = topic}

\* No emit has raised so far; no emit of invocation k has raised.
EmissionWorks == \A j \in DOMAIN emits : emits[j].ok

EmissionWorksIn(k) == \A j \in EmitsOf(k) : emits[j].ok

\* The session has started and no message is waiting for a handler.
Quiescent == request # NoRequest /\ bus = <<>>

\* Invocation k is the Controller handling review.requested.
OnRequest(k) ==
  invocations[k].step = "Controller" /\ invocations[k].topic = ReviewRequested

\* Invocation k is the Controller handling mcts.backpropagation.completed.
OnBackpropagation(k) ==
  invocations[k].step = "Controller"
    /\ invocations[k].topic = BackpropagationCompleted

\* The request passes validation: repo_dir, branch and requirements are
\* there, and max_iterations is a number, so that the state validates.
ValidRequest ==
  /\ request.data.repo_dir \notin {PyNone, Absent, ""}
  /\ request.data.branch \notin {PyNone, Absent, ""}
  /\ request.data.requirements \notin {PyNone, Absent, ""}
  /\ request.data.max_iterations # NoneNum

\* Invocation k handled review.requested and nothing raised before the
\* decision: the tree was seeded with the evaluation of env.evaluation.
Seeded(k) ==
  /\ OnRequest(k)
  /\ ValidRequest
  /\ invocations[k].env.loader = "ok"
  /\ invocations[k].env.evaluation.kind # "raise"

\* Invocation k handled review.requested and validation, the loader or the
\* evaluation raised.
RaisedOnRequest(k) == OnRequest(k) /\ ~Seeded(k)

\* The initial score of a seeded invocation, in tenths.
InitialScore(k) ==
  IF invocations[k].env.evaluation.kind = "evaluation"
    THEN invocations[k].env.evaluation.score ELSE 5

\* Phase cycles that ran to the controller check.
FullCycles == Cardinality({k \in DOMAIN invocations : OnBackpropagation(k)})

\* The only emit of invocation k is a completed report that selects, among
\* its all_nodes, a node without parent.
OnlyEmitIsReportOn(k, isTerminal) ==
  /\ Cardinality(EmitsOf(k)) = 1
  /\ \A j \in EmitsOf(k) :
       /\ emits[j].topic = ReasoningCompleted
       /\ HasNode(emits[j].data.all_nodes, emits[j].data.selected_node_id)
       /\ LET n == NodeOf(emits[j].data.all_nodes, emits[j].data.selected_node_id)
          IN  n.parent = PyNone /\ n.isTerminal = isTerminal

\* ------------------------------------------------------------------ claims
\* C1: as long as no emit raises, a session never holds more than one
\* code-review.reasoning.completed, and once no message is left to handle it
\* holds exactly one.
C1_ExactlyOneCompleted ==
  EmissionWorks =>
    /\ Cardinality(OkEmits(ReasoningCompleted)) <= 1
    /\ Quiescent => Cardinality(OkEmits(ReasoningCompleted)) = 1

\* C2: a session seeded with a score below 0.9 and max_iterations = N > 0
\* that the Controller has finalized, with no emit raising, has run exactly N
\* full phase cycles.
C2_ExactlyNCycles ==
  \A k \in DOMAIN invocations :
    ( /\ Seeded(k)
      /\ InitialScore(k) < 9
      /\ request.data.max_iterations > 0
      /\ EmissionWorks
      /\ \E j \in OkEmits(ReasoningCompleted) : emits[j].step = "Controller" )
    => FullCycles = request.data.max_iterations

\* The order of the handlers: the first to run is the Controller; every
\* later invocation is the next phase in the order Controller, SelectNode,
\* ExpandNode, Simulate, Backpropagate, Controller, and it consumes the
\* message the invocation just before it emitted; a SelectNode after the
\* first one directly follows the Controller's handling of
\* mcts.backpropagation.completed.
PhaseOrder ==
  {<<"Controller", "SelectNode">>, <<"SelectNode", "ExpandNode">>,
   <<"ExpandNode", "Simulate">>, <<"Simulate", "Backpropagate">>,
   <<"Backpropagate", "Controller">>}

C3_PhasesInOrder ==
  /\ invocations # <<>> => OnRequest(1)
  /\ \A k \in 2..Len(invocations) :
       /\ <<invocations[k - 1].step, invocations[k].step>> \in PhaseOrder
       /\ \E j \in OkEmitsOf(k - 1) :
            /\ emits[j].topic = invocations[k].topic
            /\ emits[j].data = invocations[k].data
       /\ (invocations[k].step = "SelectNode" /\ k > 2) => OnBackpropagation(k - 1)

\* Invocation k of the Controller is the check that closes an iteration: what
\* it emits is about the session's tree, the next mcts.iteration.started or
\* the completed report over the nodes it received.
ControllerCheck(k) ==
  /\ EmitsOf(k) # {}
  /\ \A j \in EmitsOf(k) :
       \/ /\ emits[j].topic = IterationStarted
          /\ emits[j].data.nodes = invocations[k].data.nodes
       \/ /\ emits[j].topic = ReasoningCompleted
          /\ emits[j].data.all_nodes = invocations[k].data.nodes

C4_ControllerLoop ==
  \A k \in DOMAIN invocations :
    (OnBackpropagation(k) /\ EmissionWorksIn(k)) =>
      /\ Cardinality(EmitsOf(k)) = 1
      /\ \A j \in EmitsOf(k) :
           IF invocations[k].data.current_iteration + 1
                >= invocations[k].data.max_iterations
             THEN emits[j].topic = ReasoningCompleted
             ELSE /\ emits[j].topic = IterationStarted
                  /\ emits[j].data.nodes = invocations[k].data.nodes
                  /\ emits[j].data.current_iteration
                       = invocations[k].data.current_iteration + 1

\* C5: at most one message is waiting for a handler, and no invocation has
\* more than one emit that succeeded.
C5_OneMessageInFlight ==
  /\ Len(bus) <= 1
  /\ \A k \in DOMAIN invocations : Cardinality(OkEmitsOf(k)) <= 1

\* Three phases each emitted their one message; the fourth had an emit raise
\* and then emitted once.
C5_Witness ==
  /\ Len(invocations) = 4
  /\ \A k \in DOMAIN invocations : Cardinality(OkEmitsOf(k)) = 1
  /\ Cardinality(EmitsOf(4)) > 1


\* C6: with max_iterations = 0 no mcts.iteration.started is ever attempted,
\* and a seeded Controller whose emit does not raise emits exactly one event,
\* the completed report on the root, whatever the score; it is the only
\* completed report of the session.
C6_ZeroIterationsFinalize ==
  (request # NoRequest /\ request.data.max_iterations = 0) =>
    /\ \A j \in DOMAIN emits : emits[j].topic # IterationStarted
    /\ \A k \in DOMAIN invocations :
         (Seeded(k) /\ EmissionWorksIn(k)) =>
           /\ OnlyEmitIsReportOn(k, FALSE)
           /\ \A j \in EmitsOf(k) :
                /\ Len(emits[j].data.all_nodes) = 1
                /\ emits[j].data.state = invocations[k].env.evaluation.summary
           /\ Cardinality(OkEmits(ReasoningCompleted)) = 1

\* A score below the threshold, max_iterations = 0, and the report is out.
C6_Witness ==
  /\ request.data.max_iterations = 0
  /\ \E k \in DOMAIN invocations :
       /\ Seeded(k)
       /\ InitialScore(k) = 5
       /\ \E j \in OkEmitsOf(k) : emits[j].data.selected_node_id = RootId

\* C7: a seeded Controller whose initial score is 0.9 or more and whose emit
\* does not raise emits exactly one event, the completed report on the root,
\* for every max_iterations; no mcts.iteration.started is attempted and the
\* session holds that one completed report.
C7_HighScoreFinalize ==
  \A k \in DOMAIN invocations :
    (Seeded(k) /\ InitialScore(k) >= 9 /\ EmissionWorksIn(k)) =>
      /\ OnlyEmitIsReportOn(k, FALSE)
      /\ \A j \in EmitsOf(k) :
           /\ Len(emits[j].data.all_nodes) = 1
           /\ emits[j].data.stats.value = InitialScore(k)
      /\ \A j \in DOMAIN emits : emits[j].topic # IterationStarted
      /\ Cardinality(OkEmits(ReasoningCompleted)) = 1

\* The score is exactly 0.9, max_iterations is positive, the report is out.
C7_Witness ==
  /\ request.data.max_iterations = MaxIterations
  /\ \E k \in DOMAIN invocations :
       /\ Seeded(k)
       /\ InitialScore(k) = 9
       /\ \E j \in OkEmitsOf(k) : emits[j].data.selected_node_id = RootId

\* C8: a seeded Controller whose initial score is below 0.9, whose
\* max_iterations is not 0 and whose emit does not raise emits exactly one
\* event, mcts.iteration.started, carrying one node (the root: no parent, no
\* children, visits 1, value 0, state the evaluation summary), the root as
\* current node, current_iteration 0 and the request's max_iterations,
\* exploration_constant, max_depth and output_url.
C8_SeedsSearch ==
  \A k \in DOMAIN invocations :
    ( /\ Seeded(k)
      /\ InitialScore(k) < 9
      /\ request.data.max_iterations # 0
      /\ EmissionWorksIn(k) )
    => /\ Cardinality(EmitsOf(k)) = 1
       /\ \A j \in EmitsOf(k) :
            /\ emits[j].topic = IterationStarted
            /\ emits[j].data.nodes =
                 <<[id |-> emits[j].data.root_id, parent |-> PyNone,
                    children |-> <<>>, visits |-> 1, value |-> 0,
                    state |-> invocations[k].env.evaluation.summary,
                    isTerminal |-> FALSE]>>
            /\ emits[j].data.current_node_id = emits[j].data.root_id
            /\ emits[j].data.current_iteration = 0
            /\ emits[j].data.max_iterations = request.data.max_iterations
            /\ emits[j].data.exploration_constant = request.data.exploration_constant
            /\ emits[j].data.max_depth = request.data.max_depth
            /\ emits[j].data.output_url = request.data.output_url

\* A negative max_iterations and a score just below the threshold: the
\* search is started.
C8_Witness ==
  /\ request.data.max_iterations < 0
  /\ request.data.output_url # PyNone
  /\ \E k \in DOMAIN invocations :
       /\ Seeded(k)
       /\ InitialScore(k) = 8
       /\ \E j \in OkEmitsOf(k) : emits[j].topic = IterationStarted

\* C9: when validation, the loader or the evaluation raises while the
\* Controller handles review.requested, and its emits do not raise, it emits
\* exactly one event: a completed report that selects a terminal error node
\* without parent.
C9_ErrorReport ==
  \A k \in DOMAIN invocations :
    (RaisedOnRequest(k) /\ EmissionWorksIn(k)) => OnlyEmitIsReportOn(k, TRUE)

\* C10: every attempt to emit review.error comes after a failed attempt of the
\* same invocation to emit code-review.reasoning.completed; so none is made
\* while no emit raises.
C10_ReviewErrorLastResort ==
  /\ \A j \in DOMAIN emits :
       emits[j].topic = ReviewError =>
         \E i \in 1..(j - 1) :
           /\ emits[i].inv = emits[j].inv
           /\ emits[i].topic = ReasoningCompleted
           /\ ~emits[i].ok
  /\ EmissionWorks => \A j \in DOMAIN emits : emits[j].topic # ReviewError

\* A loader failure whose error report could not be emitted: review.error.
C10_Witness ==
  \E k \in DOMAIN invocations :
    /\ RaisedOnRequest(k)
    /\ invocations[k].env.loader = "raise"
    /\ \E j \in OkEmitsOf(k) : emits[j].topic = ReviewError

\* ------------------------------------------------------ tree observations
\* The invocations of a step.
InvocationsOf(step) == {k \in DOMAIN invocations : invocations[k].step = step}

\* The emits of invocation k on a topic.
EmitsOn(k, topic) == {j \in EmitsOf(k) : emits[j].topic = topic}

RECURSIVE Ascent(_, _, _)
\* The ids met on at most fuel nodes going from id up the parent links.
Ascent(nodes, id, fuel) ==
  IF fuel = 0 \/ ~HasNode(nodes, id) THEN {}
  ELSE IF Falsy(NodeOf(nodes, id).parent) THEN {id}
  ELSE {id} \cup Ascent(nodes, NodeOf(nodes, id).parent, fuel - 1)

\* The node ids of the path from id to the root, both included; when the
\* parent links from id run in a cycle, the ids of the cycle.
PathIds(nodes, id) == Ascent(nodes, id, Len(nodes))

\* C11: the tree a backpropagation emits has the nodes of the tree it
\* received; every node on the path from the simulated node to the root, both
\* included, has visits one higher and value higher by the simulation value;
\* every other node is unchanged.  The root is on the path.
C11_BackpropagationUpdatesPath ==
  \A k \in InvocationsOf("Backpropagate") :
    \A j \in EmitsOn(k, BackpropagationCompleted) :
      LET before == invocations[k].data.nodes
          after == emits[j].data.nodes
          sim == invocations[k].data.simulation_result
          path == PathIds(before, sim.nodeId)
      IN  /\ HasNode(before, sim.nodeId)
          /\ {sim.nodeId, RootId} \subseteq path
          /\ Len(after) = Len(before)
          /\ \A i \in DOMAIN before :
               IF before[i].id \in path
                 THEN after[i] = [before[i] EXCEPT !.visits = @ + 1,
                                                   !.value = @ + sim.value]
                 ELSE after[i] = before[i]

\* A simulated node two links below the root with a sibling off the path,
\* and a simulation value above zero.
C11_Witness ==
  \E k \in InvocationsOf("Backpropagate") :
    \E j \in EmitsOn(k, BackpropagationCompleted) :
      LET before == invocations[k].data.nodes
          sim == invocations[k].data.simulation_result
      IN  /\ emits[j].ok
          /\ sim.value > 0
          /\ Cardinality(PathIds(before, sim.nodeId)) = 3
          /\ Len(before) = 4

\* The tree a payload carries: nodes of a pipeline message, all_nodes of a
\* report, none otherwise.
TreeIn(data) ==
  IF "nodes" \in DOMAIN data THEN Nodes(data)
  ELSE IF "all_nodes" \in DOMAIN data THEN data.all_nodes
  ELSE <<>>

PipelineTopics == {IterationStarted, NodeSelected, NodeExpanded, SimulationCompleted, BackpropagationCompleted}

\* Every node of tree before that is in tree after has the same counters.
SameCounters(before, after) ==
  \A id \in NodeIds(before) \cap NodeIds(after) :
    /\ NodeOf(after, id).visits = NodeOf(before, id).visits
    /\ NodeOf(after, id).value = NodeOf(before, id).value

\* No node of tree before that is in tree after has a lower counter.
NoLowerCounters(before, after) ==
  \A id \in NodeIds(before) \cap NodeIds(after) :
    /\ NodeOf(after, id).visits >= NodeOf(before, id).visits
    /\ NodeOf(after, id).value >= NodeOf(before, id).value

\* C12: a tree emitted by Selection, Expansion or Simulation gives every node
\* of the tree the step received the visits and value it had, and the
\* pipeline messages of these steps keep every node they received; from one
\* message of the session to a later one no node's visits or value is lower.
C12_CountersFrame ==
  /\ \A k \in InvocationsOf("SelectNode") \cup InvocationsOf("ExpandNode")
                \cup InvocationsOf("Simulate") :
       \A j \in EmitsOf(k) :
         /\ SameCounters(TreeIn(invocations[k].data), TreeIn(emits[j].data))
         /\ emits[j].topic \in PipelineTopics
              => NodeIds(TreeIn(invocations[k].data)) \subseteq NodeIds(TreeIn(emits[j].data))
  /\ \A k \in DOMAIN invocations : \A j \in EmitsOf(k) :
       NoLowerCounters(TreeIn(invocations[k].data), TreeIn(emits[j].data))
  /\ \A i, j \in DOMAIN emits :
       i < j => NoLowerCounters(TreeIn(emits[i].data), TreeIn(emits[j].data))

\* The three steps each passed on a tree with a visited node below the root,
\* and the backpropagation after them raised counters.
C12_Witness ==
  /\ Len(invocations) = 4
  /\ \A k \in 1..4 : \E j \in OkEmitsOf(k) : emits[j].topic \in PipelineTopics
  /\ \E id \in NodeIds(TreeIn(invocations[1].data)) :
       /\ id # RootId
       /\ NodeOf(TreeIn(invocations[1].data), id).visits > 0
       /\ \E j \in OkEmitsOf(4) :
            NodeOf(TreeIn(emits[j].data), id).visits
              > NodeOf(TreeIn(invocations[1].data), id).visits

\* The number of times id occurs in the list ids.
Occurrences(ids, id) == Cardinality({i \in DOMAIN ids : ids[i] = id})

\* Parent and children links agree: ids are unique, the root has no parent,
\* every other node's parent exists and lists the node once among its
\* children, and following parents from any node arrives at the root.
WellFormed(nodes, root_id) ==
  /\ \A i, j \in DOMAIN nodes : nodes[i].id = nodes[j].id => i = j
  /\ HasNode(nodes, root_id)
  /\ Falsy(NodeOf(nodes, root_id).parent)
  /\ \A i \in DOMAIN nodes :
       nodes[i].id # root_id =>
         /\ HasNode(nodes, nodes[i].parent)
         /\ Occurrences(NodeOf(nodes, nodes[i].parent).children, nodes[i].id) = 1
         /\ root_id \in PathIds(nodes, nodes[i].id)

\* The emits that carry the tree on to the next step.
TreeEmits == {j \in DOMAIN emits : emits[j].topic \in PipelineTopics}

\* C13: the tree of every message between the steps is well formed, also
\* after the expansion of a node that was expanded before.
C13_TreeWellFormed ==
  /\ \A k \in DOMAIN invocations :
       WellFormed(invocations[k].data.nodes, invocations[k].data.root_id)
  /\ \A j \in TreeEmits : WellFormed(emits[j].data.nodes, emits[j].data.root_id)

\* A node that had a child already was expanded by two more, and the tree
\* went on through simulation and backpropagation.
C13_Witness ==
  /\ Len(invocations) = 4
  /\ invocations[2].step = "ExpandNode"
  /\ LET selected == NodeOf(invocations[2].data.nodes, invocations[2].data.selected_node_id)
     IN  /\ Len(selected.children) = 1
         /\ \E j \in OkEmitsOf(2) :
              Len(NodeOf(emits[j].data.nodes, selected.id).children) = 3
  /\ \E j \in OkEmitsOf(4) : emits[j].topic = BackpropagationCompleted

\* --------------------------------------------------- selector observations
\* The node id the handler starts from: current_node_id, root_id without it.
StartOf(d) == StrGet(d, "current_node_id", StrGet(d, "root_id", PyNone))

\* The numbers of a message are numbers.
NumbersIn(d) ==
  NoneNum \notin {d.current_iteration, d.max_iterations, d.exploration_constant, d.max_depth}

\* Invocation k of SelectNode received a message that passes the handler's
\* checks, so that the handler runs the descent from the current node.
Descends(k) ==
  LET d == invocations[k].data
  IN  /\ invocations[k].step = "SelectNode"
      /\ Len(Nodes(d)) > 0
      /\ ~Falsy(StrGet(d, "root_id", PyNone))
      /\ HasNode(Nodes(d), StartOf(d))
      /\ NumbersIn(d)
      /\ d.current_iteration < d.max_iterations

\* The node the descent of invocation k returns when it stands at node id
\* with depth links behind it.
DescentFrom(k, id, depth) ==
  LET d == invocations[k].data
  IN  select_node_ucb1(d.nodes, d.root_id, id, d.exploration_constant, d.max_depth, depth)

\* The positions of the children of node id that have no visits.
UnvisitedAt(nodes, id) ==
  {i \in DOMAIN NodeOf(nodes, id).children :
     NodeOf(nodes, NodeOf(nodes, id).children[i]).visits = 0}

\* C14: wherever a descent stands at a node at a depth below max_depth and
\* the node has a child without visits, it returns the first such child in
\* the order of the children list, whatever the exploration constant and the
\* other children are; the handler emits that child when the node is the one
\* the descent starts from.
C14_UnvisitedChildFirst ==
  \A k \in DOMAIN invocations :
    Descends(k) =>
      LET d == invocations[k].data
      IN  \A id \in NodeIds(d.nodes) :
            (d.max_depth > 0 /\ UnvisitedAt(d.nodes, id) # {}) =>
              LET children == NodeOf(d.nodes, id).children
                  first == CHOOSE i \in UnvisitedAt(d.nodes, id) :
                             \A l \in UnvisitedAt(d.nodes, id) : i <= l
              IN  /\ \A depth \in 0..(d.max_depth - 1) :
                       DescentFrom(k, id, depth) = NodeOf(d.nodes, children[first])
                  /\ id = StartOf(d) =>
                       \A j \in EmitsOn(k, NodeSelected) :
                         emits[j].data.selected_node_id = children[first]

\* The handler emitted a node without visits that is second among its
\* parent's children, behind a visited one, with a positive exploration
\* constant.
C14_Witness ==
  \E k \in DOMAIN invocations :
    /\ Descends(k)
    /\ invocations[k].data.exploration_constant > 0
    /\ \E j \in OkEmitsOf(k) :
         /\ emits[j].topic = NodeSelected
         /\ LET d == invocations[k].data
                children == NodeOf(d.nodes, StartOf(d)).children
            IN  /\ Len(children) >= 2
                /\ NodeOf(d.nodes, children[1]).visits > 0
                /\ NodeOf(d.nodes, children[2]).visits = 0
                /\ emits[j].data.selected_node_id = children[2]

\* The UCB1 score of the child at position i of node id in the tree of d.
ScoreAt(d, id, i) ==
  LET child == NodeOf(d.nodes, NodeOf(d.nodes, id).children[i])
  IN  UCB1(child.value, child.visits, NodeOf(d.nodes, id).visits, d.exploration_constant)

\* The position of the child with the highest score, the first of them when
\* several have it.
ArgMaxFirst(d, id) ==
  CHOOSE i \in DOMAIN NodeOf(d.nodes, id).children :
    /\ \A l \in DOMAIN NodeOf(d.nodes, id).children :
         ~ScoreAbove(ScoreAt(d, id, l), ScoreAt(d, id, i))
    /\ \A l \in 1..(i - 1) : ScoreAbove(ScoreAt(d, id, i), ScoreAt(d, id, l))

\* C15: wherever a descent stands at a node at a depth below max_depth whose
\* children all have visits, it goes on from the child with the highest UCB1
\* score, the first in the children list on equal scores; the handler emits
\* the result of the descent from its start node.
C15_DescendsIntoBestChild ==
  \A k \in DOMAIN invocations :
    Descends(k) =>
      LET d == invocations[k].data
      IN  /\ \A id \in NodeIds(d.nodes) :
               (NodeOf(d.nodes, id).children # <<>> /\ UnvisitedAt(d.nodes, id) = {}) =>
                 \A depth \in 0..(d.max_depth - 1) :
                   DescentFrom(k, id, depth)
                     = DescentFrom(k, NodeOf(d.nodes, id).children[ArgMaxFirst(d, id)],
                                   depth + 1)
          /\ \A j \in EmitsOn(k, NodeSelected) :
               emits[j].data.selected_node_id = DescentFrom(k, StartOf(d), 0).id

\* Two visited children with equal scores below the start node, the descent
\* one link deep: the first child was emitted.
C15_Witness ==
  \E k \in DOMAIN invocations :
    /\ Descends(k)
    /\ invocations[k].data.max_depth = 1
    /\ LET d == invocations[k].data
           children == NodeOf(d.nodes, StartOf(d)).children
       IN  /\ Len(children) = 2
           /\ UnvisitedAt(d.nodes, StartOf(d)) = {}
           /\ NodeOf(d.nodes, children[1]).visits # NodeOf(d.nodes, children[2]).visits
           /\ ScoreAt(d, StartOf(d), 1) = ScoreAt(d, StartOf(d), 2)
           /\ \E j \in OkEmitsOf(k) :
                /\ emits[j].topic = NodeSelected
                /\ emits[j].data.selected_node_id = children[1]

\* Invocation k of SelectNode received the scenario: the scenario tree, the
\* descent starting at the root with exploration constant 1.4.
OnScenario(k) ==
  /\ Descends(k)
  /\ invocations[k].data.nodes = ScenarioTree
  /\ StartOf(invocations[k].data) = RootId
  /\ invocations[k].data.exploration_constant = 1400
  /\ invocations[k].data.max_depth > 0

\* C16: on root(visits 10, value 5.0) with the childless children
\* c1(5, 2.5) and c2(4, 3.0) and exploration constant 1.4 the scores are
\* 1.450 for c1 and 1.812 for c2, and the selection from the root is c2.
C16_ScenarioSelectsC2 ==
  \A k \in DOMAIN invocations :
    OnScenario(k) =>
      /\ ScoreAt(invocations[k].data, RootId, 1)[1] \div ScoreScale = 1450
      /\ ScoreAt(invocations[k].data, RootId, 2)[1] \div ScoreScale = 1812
      /\ DescentFrom(k, RootId, 0) = ScenarioTree[3]
      /\ \A j \in EmitsOn(k, NodeSelected) : emits[j].data.selected_node_id = "c2"

\* The scenario was handled and mcts.node.selected went out with c2.
C16_Witness ==
  \E k \in DOMAIN invocations :
    /\ OnScenario(k)
    /\ \E j \in OkEmitsOf(k) :
         /\ emits[j].topic = NodeSelected
         /\ emits[j].data.selected_node_id = "c2"

\* The number of child links from node id down to node below, a node of the
\* subtree of id.
LinksDown(nodes, id, below) ==
  Cardinality(PathIds(nodes, below)) - Cardinality(PathIds(nodes, id))

\* C17: a descent that stands at a node with depth links behind it returns
\* a node of that node's subtree at most max_depth - depth links further
\* down, and returns the node itself when it has no children or depth has
\* reached max_depth; the node the handler emits is at most max_depth links
\* below the start node, and is the start node when max_depth is 0.
C17_DescentBounded ==
  \A k \in DOMAIN invocations :
    Descends(k) =>
      LET d == invocations[k].data
      IN  /\ \A id \in NodeIds(d.nodes) : \A depth \in 0..(d.max_depth + 1) :
               LET returned == DescentFrom(k, id, depth)
               IN  /\ id \in PathIds(d.nodes, returned.id)
                   /\ LinksDown(d.nodes, id, returned.id) <= Max(d.max_depth - depth, 0)
                   /\ (NodeOf(d.nodes, id).children = <<>> \/ depth >= d.max_depth)
                        => returned = NodeOf(d.nodes, id)
          /\ \A j \in EmitsOn(k, NodeSelected) :
               /\ StartOf(d) \in PathIds(d.nodes, emits[j].data.selected_node_id)
               /\ LinksDown(d.nodes, StartOf(d), emits[j].data.selected_node_id)
                    <= d.max_depth
               /\ d.max_depth = 0 => emits[j].data.selected_node_id = StartOf(d)

\* The handler emitted a node max_depth = 2 links below the start node
\* although that node has a child.
C17_Witness ==
  \E k \in DOMAIN invocations :
    /\ Descends(k)
    /\ invocations[k].data.max_depth = 2
    /\ \E j \in OkEmitsOf(k) :
         /\ emits[j].topic = NodeSelected
         /\ LET d == invocations[k].data
                selected == emits[j].data.selected_node_id
            IN  /\ LinksDown(d.nodes, StartOf(d), selected) = 2
                /\ NodeOf(d.nodes, selected).children # <<>>

\* Invocation k of SelectNode received a tree it cannot select in: no nodes,
\* no root id, or a start node id that is empty or not in the tree.
Unselectable(k) ==
  LET d == invocations[k].data
  IN  /\ invocations[k].step = "SelectNode"
      /\ \/ Len(Nodes(d)) = 0
         \/ Falsy(StrGet(d, "root_id", PyNone))
         \/ Falsy(StartOf(d))
         \/ ~HasNode(Nodes(d), StartOf(d))

\* C18: on a message with no nodes, no root id, or a current node id that is
\* not in the tree, the Select handler attempts the completed report once and
\* mcts.node.selected never; when the emit does not raise the report is the
\* only event of the invocation.
C18_SelectFailureReports ==
  \A k \in DOMAIN invocations :
    Unselectable(k) =>
      /\ Cardinality(EmitsOn(k, ReasoningCompleted)) = 1
      /\ EmitsOn(k, NodeSelected) = {}
      /\ EmissionWorksIn(k) =>
           /\ Cardinality(EmitsOf(k)) = 1
           /\ \A j \in EmitsOf(k) : emits[j].ok /\ emits[j].topic = ReasoningCompleted

\* A tree with nodes and a root id, the current node id not in it, and the
\* report went out.
C18_Witness ==
  \E k \in DOMAIN invocations :
    /\ Unselectable(k)
    /\ Len(Nodes(invocations[k].data)) > 0
    /\ invocations[k].data.root_id = RootId
    /\ invocations[k].data.current_node_id = "gone"
    /\ \E j \in OkEmitsOf(k) : emits[j].topic = ReasoningCompleted

\* Invocation k of ExpandNode received a selected node id that is not in the
\* tree, or a selected node without state.
Unexpandable(k) ==
  LET d == invocations[k].data
      selected_node_id == StrGet(d, "selected_node_id", PyNone)
  IN  /\ invocations[k].step = "ExpandNode"
      /\ \/ ~HasNode(Nodes(d), selected_node_id)
         \/ Falsy(NodeOf(Nodes(d), selected_node_id).state)

\* C19: the report a Select or Expand handler emits for a tree or node it
\* cannot work on, in a session whose message carries a root id, names that
\* root id or the current node id of the message as selected node.
C19_FailureReportNamesKnownNode ==
  \A k \in DOMAIN invocations :
    LET d == invocations[k].data
    IN  ((Unselectable(k) \/ Unexpandable(k)) /\ ~Falsy(StrGet(d, "root_id", PyNone))) =>
          \A j \in EmitsOn(k, ReasoningCompleted) :
            emits[j].data.selected_node_id \in {StrGet(d, "root_id", PyNone), StartOf(d)}

\* Invocation k of ExpandNode received a selected node that is in the tree
\* and has a state, and expand_node returned at least one candidate.
Expandable(k) ==
  /\ invocations[k].step = "ExpandNode"
  /\ ~Unexpandable(k)
  /\ invocations[k].env.expansion.kind = "expansion"
  /\ Len(invocations[k].env.expansion.steps) >= 1

\* C20: when the selected node is in the tree with a state, expand_node
\* returned k >= 1 candidates and the emit does not raise, the Expander emits
\* mcts.node.expanded once and nothing else; its tree is the received tree
\* with k nodes added after it, each with an id that was not in the tree and
\* differs from the other new ids, the selected node as parent, no children,
\* visits 0, value 0, isTerminal false and the candidate text as state; the
\* selected node's children are the old ones followed by the k ids in
\* candidate order, every other node is as received, and expanded_node_ids
\* is the k ids in that order.
C20_ExpansionAddsCandidates ==
  \A k \in DOMAIN invocations :
    (Expandable(k) /\ EmissionWorksIn(k)) =>
      /\ Cardinality(EmitsOf(k)) = 1
      /\ \A j \in EmitsOf(k) :
           LET d == invocations[k].data
               steps == invocations[k].env.expansion.steps
               after == emits[j].data.nodes
               ids == emits[j].data.expanded_node_ids
           IN  /\ emits[j].topic = NodeExpanded
               /\ Len(ids) = Len(steps)
               /\ Len(after) = Len(d.nodes) + Len(steps)
               /\ \A i \in DOMAIN ids :
                    /\ ids[i] \notin NodeIds(d.nodes)
                    /\ \A l \in DOMAIN ids : ids[l] = ids[i] => l = i
                    /\ after[Len(d.nodes) + i]
                         = Node(ids[i], d.selected_node_id, <<>>, 0, 0, steps[i], FALSE)
               /\ \A i \in DOMAIN d.nodes :
                    IF d.nodes[i].id = d.selected_node_id
                      THEN after[i] = [d.nodes[i] EXCEPT !.children = @ \o ids]
                      ELSE after[i] = d.nodes[i]

\* A node below the root was expanded by two candidates, one of them with
\* an empty text, and mcts.node.expanded went out.
C20_Witness ==
  \E k \in DOMAIN invocations :
    /\ Expandable(k)
    /\ invocations[k].data.selected_node_id # RootId
    /\ invocations[k].env.expansion.steps = <<"step", "">>
    /\ \E j \in OkEmitsOf(k) :
         /\ emits[j].topic = NodeExpanded
         /\ Len(emits[j].data.expanded_node_ids) = 2

\* Invocation k of ExpandNode received a selected node that is in the tree
\* and has a state, and expand_node raised or returned no steps.
NoCandidates(k) ==
  /\ invocations[k].step = "ExpandNode"
  /\ ~Unexpandable(k)
  /\ \/ invocations[k].env.expansion.kind # "expansion"
     \/ Len(invocations[k].env.expansion.steps) = 0

\* C21: when expand_node raises or returns no steps for a selected node that
\* is in the tree, and the emit does not raise, the Expander emits exactly
\* one event, mcts.node.expanded with three expanded_node_ids whose nodes
\* hold the three fixed fallback steps, and no completed report.
C21_ExpandFallbackCandidates ==
  \A k \in DOMAIN invocations :
    (NoCandidates(k) /\ EmissionWorksIn(k)) =>
      /\ Cardinality(EmitsOf(k)) = 1
      /\ EmitsOn(k, ReasoningCompleted) = {}
      /\ \A j \in EmitsOf(k) :
           /\ emits[j].topic = NodeExpanded
           /\ Len(emits[j].data.expanded_node_ids) = 3
           /\ \A i \in 1..3 :
                NodeOf(emits[j].data.nodes, emits[j].data.expanded_node_ids[i]).state
                  = FallbackSteps[i]

\* ---------------------------------------------------- oracle observations
\* The calls made of a wrapper.
CallsOf(name) == {k \in DOMAIN invocations : invocations[k].step = name}

\* Both agents of call k failed: the primary raised or answered with text
\* that is not the structured content asked for, the other one raised or
\* answered with JSON that does not parse into the result.
BothAgentsFailed(k) ==
  /\ invocations[k].data.primary.kind \in {"raise", "str"}
  /\ invocations[k].data.fallback.kind = "raise"

\* C22: no call of expand_node, evaluate_commits or evaluate_reasoning (with
\* at least one candidate state) raises, and when both agents failed the
\* call returns the fixed result: the three generic steps, score 0.5, or
\* value 0.5.
C22_OracleWrappersFallBack ==
  /\ \A k \in CallsOf("expand_node") :
       /\ invocations[k].env.result.kind # "raise"
       /\ BothAgentsFailed(k) => invocations[k].env.result = NodeExpansion(FallbackSteps)
  /\ \A k \in CallsOf("evaluate_commits") :
       /\ invocations[k].env.result.kind # "raise"
       /\ BothAgentsFailed(k) => invocations[k].env.result = UltimateFallbackEvaluation
  /\ \A k \in CallsOf("evaluate_reasoning") :
       Len(invocations[k].data.expanded_states) > 0 =>
         /\ invocations[k].env.result.kind # "raise"
         /\ BothAgentsFailed(k) => invocations[k].env.result.value = 1

\* Some invocation after k of the step emitted the topic.
LaterEmitted(k, step, topic) ==
  \E l \in DOMAIN invocations :
    /\ l > k
    /\ invocations[l].step = step
    /\ \E j \in OkEmitsOf(l) : emits[j].topic = topic

\* C23: once nothing is left to handle in a session whose emits did not
\* raise, every expansion that got no candidates for a selected node of the
\* tree was followed by a Simulate that emitted mcts.simulation.completed, a
\* Backpropagate that emitted mcts.backpropagation.completed and a
\* Controller that emitted the completed report.
C23_ZeroCandidatesRunThrough ==
  (Quiescent /\ EmissionWorks) =>
    \A k \in DOMAIN invocations :
      NoCandidates(k) =>
        /\ LaterEmitted(k, "Simulate", SimulationCompleted)
        /\ LaterEmitted(k, "Backpropagate", BackpropagationCompleted)
        /\ LaterEmitted(k, "Controller", ReasoningCompleted)

\* ------------------------------------------------- simulator observations
\* The expanded ids of a message that are in its tree with a state.
ValidIdsOf(d) == ValidExpandedIds(Nodes(d), d.expanded_node_ids, 1)

\* C24: on mcts.node.expanded with an empty expanded_node_ids list and a
\* root that is in the tree, when the emit does not raise, the Simulator
\* emits exactly one event, mcts.simulation.completed, whose simulation
\* result names the root, has value 0.5 and the explanation of the fallback
\* for no expanded nodes.
C24_EmptyExpandedEvaluatesRoot ==
  \A k \in InvocationsOf("Simulate") :
    LET d == invocations[k].data
    IN  (HasNode(Nodes(d), d.root_id) /\ d.expanded_node_ids = <<>> /\ EmissionWorksIn(k)) =>
          /\ Cardinality(EmitsOf(k)) = 1
          /\ \A j \in EmitsOf(k) :
               /\ emits[j].topic = SimulationCompleted
               /\ emits[j].data.simulation_result.nodeId = d.root_id
               /\ emits[j].data.simulation_result.value = 1
               /\ emits[j].data.simulation_result.explanation
                    = "Fallback evaluation: No expanded nodes to simulate"
               /\ emits[j].data.nodes = d.nodes

\* An empty list arrived with the root in the tree and the result went out.
C24_Witness ==
  \E k \in InvocationsOf("Simulate") :
    /\ invocations[k].data.expanded_node_ids = <<>>
    /\ invocations[k].data.root_id = RootId
    /\ \E j \in OkEmitsOf(k) : emits[j].data.simulation_result.nodeId = RootId

\* C25: whatever mcts.node.expanded carries, a Simulate invocation whose
\* emits do not raise emits exactly one event, mcts.simulation.completed
\* with a simulation_result.
C25_OneSimulationResult ==
  \A k \in InvocationsOf("Simulate") :
    EmissionWorksIn(k) =>
      /\ Cardinality(EmitsOf(k)) = 1
      /\ \A j \in EmitsOf(k) :
           /\ emits[j].topic = SimulationCompleted
           /\ "simulation_result" \in DOMAIN emits[j].data
           /\ DOMAIN emits[j].data.simulation_result = {"nodeId", "value", "explanation"}

\* The root named by the message is not in the tree, none of the expanded
\* ids is, and the result went out.
C25_Witness ==
  \E k \in InvocationsOf("Simulate") :
    /\ ~HasNode(Nodes(invocations[k].data), invocations[k].data.root_id)
    /\ invocations[k].data.expanded_node_ids = <<"zz">>
    /\ \E j \in OkEmitsOf(k) : emits[j].topic = SimulationCompleted

\* The message of invocation k has a root with a state and an expanded id
\* of a node with a state.
Simulable(k) ==
  LET d == invocations[k].data
  IN  /\ invocations[k].step = "Simulate"
      /\ HasNode(Nodes(d), d.root_id)
      /\ ~Falsy(NodeOf(Nodes(d), d.root_id).state)
      /\ ValidIdsOf(d) # <<>>

\* C26: when the root has a state and some expanded id names a node with a
\* state, the Simulator makes one emit attempt, with one result whose nodeId
\* is one of those ids: the sampled one when the primary agent's value is
\* used, the first one in the fallback results.
C26_OneValidCandidate ==
  \A k \in DOMAIN invocations :
    Simulable(k) =>
      LET valid == ValidIdsOf(invocations[k].data)
      IN  /\ Cardinality(EmitsOf(k)) = 1
          /\ \A j \in EmitsOf(k) :
               /\ emits[j].topic = SimulationCompleted
               /\ \E i \in DOMAIN valid : emits[j].data.simulation_result.nodeId = valid[i]
               /\ emits[j].data.simulation_result.nodeId
                    = IF emits[j].data.simulation_result.explanation = "explanation"
                        THEN valid[invocations[k].env.idx] ELSE valid[1]

\* Both agents failed after the second of two valid ids was sampled; the
\* result names the first valid id.
C26_Witness ==
  \E k \in DOMAIN invocations :
    /\ Simulable(k)
    /\ Len(ValidIdsOf(invocations[k].data)) = 2
    /\ invocations[k].env.idx = 2
    /\ \E j \in OkEmitsOf(k) :
         /\ emits[j].data.simulation_result.explanation
              = "Fallback evaluation due to service error"
         /\ emits[j].data.simulation_result.nodeId = ValidIdsOf(invocations[k].data)[1]

\* C27: the value of every simulation result, returned by a call of
\* evaluate_reasoning or emitted by the Simulator, is between 0 and 1.
C27_ValueInUnitInterval ==
  /\ \A k \in CallsOf("evaluate_reasoning") :
       invocations[k].env.result.kind = "result" =>
         (0 <= invocations[k].env.result.value /\ invocations[k].env.result.value <= 2)
  /\ \A j \in DOMAIN emits :
       emits[j].topic = SimulationCompleted =>
         /\ 0 <= emits[j].data.simulation_result.value
         /\ emits[j].data.simulation_result.value <= 2

\* A result of the primary agent with value 1.0 was emitted.
C27_Witness ==
  \E k \in DOMAIN invocations :
    /\ Simulable(k)
    /\ \E j \in OkEmitsOf(k) :
         /\ emits[j].data.simulation_result.explanation = "explanation"
         /\ emits[j].data.simulation_result.value = 2

\* ---------------------------------------------- finalization observations
\* Invocation k of SelectNode received a message that passes the handler's
\* checks at current_iteration >= max_iterations.
Finalizes(k) ==
  LET d == invocations[k].data
  IN  /\ invocations[k].step = "SelectNode"
      /\ Len(Nodes(d)) > 0
      /\ ~Falsy(StrGet(d, "root_id", PyNone))
      /\ HasNode(Nodes(d), StartOf(d))
      /\ NumbersIn(d)
      /\ d.current_iteration >= d.max_iterations

\* The positions of the visited nodes of a tree.
Visited(nodes) == {i \in DOMAIN nodes : nodes[i].visits > 0}

\* value/visits of the node at position l is at most that of the one at i.
RatioAtMost(nodes, l, i) ==
  nodes[l].value * nodes[i].visits <= nodes[i].value * nodes[l].visits

\* The id the best-node scan must give on a tree: the earliest made of the
\* visited nodes with the highest value/visits, current without visited nodes.
BestByRatio(nodes, current) ==
  IF Visited(nodes) = {} THEN current
  ELSE nodes[CHOOSE i \in Visited(nodes) :
               /\ \A l \in Visited(nodes) : RatioAtMost(nodes, l, i)
               /\ \A l \in Visited(nodes) : l < i => ~RatioAtMost(nodes, i, l)].id

\* The full report of invocation k: the first emit it attempts (the ones
\* attempted after a failed emit are cut down, the last names the root).
FullReportsOf(k) ==
  {j \in EmitsOn(k, ReasoningCompleted) : \A l \in 1..(j - 1) : emits[l].inv # k}

\* C28: the node a finalizing Select reports is a visited node whose
\* value/visits no visited node exceeds and no earlier made visited node
\* equals, or the current node id when no node is visited.
C28_FinalSelectsBestRatio ==
  \A k \in DOMAIN invocations :
    Finalizes(k) =>
      \A j \in FullReportsOf(k) :
        LET d == invocations[k].data
            selected == emits[j].data.selected_node_id
        IN  IF Visited(d.nodes) = {} THEN selected = StartOf(d)
            ELSE \E i \in Visited(d.nodes) :
                   /\ d.nodes[i].id = selected
                   /\ \A l \in Visited(d.nodes) : RatioAtMost(d.nodes, l, i)
                   /\ \A l \in Visited(d.nodes) : l < i => ~RatioAtMost(d.nodes, i, l)

\* The root has a lower ratio than two nodes below it whose ratios are
\* equal; the first of the two was reported.
C28_Witness ==
  \E k \in DOMAIN invocations :
    /\ Finalizes(k)
    /\ Len(invocations[k].data.nodes) = 3
    /\ LET nodes == invocations[k].data.nodes
       IN  /\ Visited(nodes) = {1, 2, 3}
           /\ ~RatioAtMost(nodes, 2, 1)
           /\ RatioAtMost(nodes, 2, 3) /\ RatioAtMost(nodes, 3, 2)
           /\ nodes[2].visits # nodes[3].visits
           /\ \E j \in OkEmitsOf(k) \cap FullReportsOf(k) :
                emits[j].data.selected_node_id = nodes[2].id

\* C29: the report of a finalizing Select carries the tree as received, and
\* the best-node scan over the reported tree, with the same current node,
\* gives the id the report selects.
C29_ScanRepeatable ==
  \A k \in DOMAIN invocations :
    Finalizes(k) =>
      \A j \in FullReportsOf(k) :
        /\ emits[j].data.all_nodes = invocations[k].data.nodes
        /\ BestByRatio(emits[j].data.all_nodes, StartOf(invocations[k].data))
             = emits[j].data.selected_node_id

\* A report on a visited node below the root went out with the tree of
\* three nodes it was made from.
C29_Witness ==
  \E k \in DOMAIN invocations :
    /\ Finalizes(k)
    /\ \E j \in OkEmitsOf(k) \cap FullReportsOf(k) :
         /\ Len(emits[j].data.all_nodes) = 3
         /\ emits[j].data.selected_node_id # RootId
         /\ NodeOf(emits[j].data.all_nodes, emits[j].data.selected_node_id).visits > 0

\* The stats of report j are those of its selected node in the tree of d.
StatsFromTree(d, j) ==
  LET selected == NodeOf(d.nodes, emits[j].data.selected_node_id)
  IN  /\ emits[j].data.stats.visits = selected.visits
      /\ emits[j].data.stats.value = selected.value
      /\ emits[j].data.stats.total_visits
           = Cardinality({<<i, n>> \in (DOMAIN d.nodes) \X (1..3) : n <= d.nodes[i].visits})
      /\ emits[j].data.stats.children_count = Len(selected.children)

\* C30 as stated: the final report on a node of the tree has the stats of
\* that node in the tree and the node's state as its state.
C30_ReportStateIsNodeState ==
  \A k \in DOMAIN invocations :
    Finalizes(k) =>
      \A j \in FullReportsOf(k) :
        HasNode(invocations[k].data.nodes, emits[j].data.selected_node_id) =>
          /\ StatsFromTree(invocations[k].data, j)
          /\ emits[j].data.state
               = NodeOf(invocations[k].data.nodes, emits[j].data.selected_node_id).state

\* C30, amended: the final report on a node of the tree has the stats of
\* that node in the tree; its state is the node's state when that is not
\* empty, and a text built from the node's counters when it is empty.
C30_ReportStatsAndState ==
  \A k \in DOMAIN invocations :
    Finalizes(k) =>
      \A j \in FullReportsOf(k) :
        HasNode(invocations[k].data.nodes, emits[j].data.selected_node_id) =>
          LET state == NodeOf(invocations[k].data.nodes,
                              emits[j].data.selected_node_id).state
          IN  /\ StatsFromTree(invocations[k].data, j)
              /\ emits[j].data.state
                   = IF Falsy(state) THEN "Node statistics and children count" ELSE state

\* A report on a visited node with a state and a child, in a tree where
\* other nodes have visits too.
C30_Witness ==
  \E k \in DOMAIN invocations :
    /\ Finalizes(k)
    /\ \E j \in OkEmitsOf(k) :
         /\ j \in FullReportsOf(k)
         /\ emits[j].data.stats.children_count > 0
         /\ emits[j].data.stats.visits > 0
         /\ emits[j].data.stats.total_visits > emits[j].data.stats.visits
         /\ emits[j].data.state = "step"

\* ------------------------------------------------------ session messages
\* The record d reports the requirements, repository and branch of the
\* request.
ReportsRequest(d) ==
  /\ "requirements" \in DOMAIN d /\ d.requirements = request.data.requirements
  /\ "repository" \in DOMAIN d /\ d.repository = request.data.repo_dir
  /\ "branch" \in DOMAIN d /\ d.branch = request.data.branch

\* C31: every phase message of a session, and the completed report made
\* after a search, reports the requirements, repository and branch of the
\* request.
C31_RequestCarriedThrough ==
  \A j \in DOMAIN emits :
    (/\ ValidRequest
     /\ emits[j].ok
     /\ \/ emits[j].topic \in PipelineTopics
        \/ emits[j].topic = ReasoningCompleted /\ emits[j].step # "Controller")
      => ReportsRequest(emits[j].data)

\* The loop counters and search parameters of a phase message.
LoopFields == {"root_id", "current_iteration", "max_iterations", "exploration_constant", "max_depth"}

\* The record d has a value under key f.
HasValue(d, f) ==
  /\ f \in DOMAIN d
  /\ IF f = "root_id" THEN d[f] \notin {PyNone, Absent} ELSE d[f] # NoneNum

\* C32: a phase message emitted by Select, Expand or Simulate has, for the
\* root id, current_iteration, max_iterations, exploration_constant and
\* max_depth, the value of the message the step received, whenever that
\* message has one.
C32_LoopFieldsForwarded ==
  \A k \in InvocationsOf("SelectNode") \cup InvocationsOf("ExpandNode")
             \cup InvocationsOf("Simulate") :
    \A j \in EmitsOf(k) :
      emits[j].topic \in PipelineTopics =>
        \A f \in LoopFields :
          HasValue(invocations[k].data, f) =>
            /\ f \in DOMAIN emits[j].data
            /\ emits[j].data[f] = invocations[k].data[f]

\* Select, Expand and Simulate each passed a message on whose exploration
\* constant and depth limit are not the defaults of the handlers.
C32_Witness ==
  /\ \A step \in {"SelectNode", "ExpandNode", "Simulate"} :
       \E k \in InvocationsOf(step) :
         /\ \A f \in LoopFields : HasValue(invocations[k].data, f)
         /\ invocations[k].data.exploration_constant = 0
         /\ invocations[k].data.max_depth = 2
         /\ \E j \in OkEmitsOf(k) : emits[j].topic \in PipelineTopics

\* ------------------------------------------------- the check in Selection
\* The emit invocation k attempts first.
FirstEmitOf(k) == {j \in EmitsOf(k) : \A l \in 1..(j - 1) : emits[l].inv # k}

\* C33: on a message that passes its checks and whose numbers are numbers
\* the Select handler first attempts mcts.node.selected when
\* current_iteration < max_iterations and the completed report otherwise,
\* and attempts node.selected in no other case; a node.selected it emits carries the tree as received and names,
\* as current and as selected node, the node the descent returns.
C33_SelectChecksLimit ==
  \A k \in InvocationsOf("SelectNode") :
    LET d == invocations[k].data
    IN  /\ (~Unselectable(k) /\ NumbersIn(d)) =>
             /\ FirstEmitOf(k) # {}
             /\ \A j \in FirstEmitOf(k) :
                  emits[j].topic = IF d.current_iteration < d.max_iterations
                                     THEN NodeSelected ELSE ReasoningCompleted
        /\ \A j \in EmitsOn(k, NodeSelected) :
             /\ ~Unselectable(k)
             /\ d.current_iteration < d.max_iterations
             /\ j \in FirstEmitOf(k)
             /\ emits[j].data.nodes = d.nodes
             /\ emits[j].data.current_node_id = DescentFrom(k, StartOf(d), 0).id
             /\ emits[j].data.selected_node_id = emits[j].data.current_node_id

\* A node below the start node went out as the selected node.
C33_Witness ==
  \E k \in InvocationsOf("SelectNode") :
    /\ invocations[k].data.current_iteration < invocations[k].data.max_iterations
    /\ \E j \in OkEmitsOf(k) :
         /\ emits[j].topic = NodeSelected
         /\ Len(emits[j].data.nodes) = 3
         /\ emits[j].data.selected_node_id # StartOf(invocations[k].data)

\* ------------------------------------------- negative iteration budgets
\* The session was seeded with a score below the threshold from a request
\* whose max_iterations is negative, and no emit has raised.
NegativeBudget ==
  /\ \E k \in DOMAIN invocations : Seeded(k) /\ InitialScore(k) < ScoreThreshold
  /\ request.data.max_iterations < 0
  /\ EmissionWorks

\* C34: a review requested with a negative max_iterations and an initial
\* score below the threshold runs the Controller and the Select handler and
\* nothing else: the only events are the Controller's iteration.started and
\* then one completed report of the Select handler that selects the root,
\* and once nothing is left to handle both have been emitted.
C34_NegativeBudgetFinalizes ==
  NegativeBudget =>
    /\ Len(invocations) <= 2
    /\ \A k \in DOMAIN invocations : invocations[k].step \in {"Controller", "SelectNode"}
    /\ \A j \in DOMAIN emits :
         \/ /\ emits[j].step = "Controller"
            /\ emits[j].topic = IterationStarted
            /\ emits[j].data.current_iteration = 0
         \/ /\ emits[j].step = "SelectNode"
            /\ emits[j].topic = ReasoningCompleted
            /\ emits[j].data.selected_node_id = RootId
            /\ emits[j].data.selected_node_id = emits[j].data.all_nodes[1].id
            /\ emits[j].data.all_nodes[1].parent = PyNone
    /\ Cardinality(OkEmits(ReasoningCompleted)) <= 1
    /\ Cardinality(OkEmits(IterationStarted)) <= 1
    /\ Quiescent => /\ Cardinality(OkEmits(ReasoningCompleted)) = 1
                    /\ Cardinality(OkEmits(IterationStarted)) = 1

\* The session of a request with max_iterations -1 came to rest after the
\* Select handler's report on the root.
C34_Witness ==
  /\ NegativeBudget
  /\ Quiescent
  /\ Len(invocations) = 2
  /\ invocations[2].step = "SelectNode"
  /\ invocations[2].data.max_iterations = 0 - 1
  /\ \E j \in OkEmitsOf(2) :
       emits[j].topic = ReasoningCompleted /\ emits[j].data.selected_node_id = RootId

\* ------------------------------------------------ the descent on any map
\* The ids reached from the ids of set through children links that name
\* keys of the map, in at most fuel rounds.
RECURSIVE ReachedFrom(_, _, _)
ReachedFrom(nodes, set, fuel) ==
  IF fuel = 0 THEN set
  ELSE ReachedFrom(nodes,
                   set \cup {id \in NodeIds(nodes) :
                               \E p \in set : \E i \in DOMAIN NodeOf(nodes, p).children :
                                 NodeOf(nodes, p).children[i] = id},
                   fuel - 1)

\* The children of node id that are keys of the map, by position.
PresentAt(nodes, id) ==
  {i \in DOMAIN NodeOf(nodes, id).children : HasNode(nodes, NodeOf(nodes, id).children[i])}

\* C35: select_node_ucb1, started at a key of the map, returns the node
\* under a key of the map that is the start or is reached from it through
\* children links; children ids that are not keys are passed over, so the
\* first child that is a key and has no visits is returned when there is
\* one, and the start node itself when none of its children is a key.
C35_DescentStaysInMap ==
  \A k \in CallsOf("select_node_ucb1") :
    LET nodes == invocations[k].data.nodes
        start == invocations[k].data.current_node_id
        result == invocations[k].env.result
        unvisited == {i \in PresentAt(nodes, start) :
                        NodeOf(nodes, NodeOf(nodes, start).children[i]).visits = 0}
    IN  /\ HasNode(nodes, result.id)
        /\ result = NodeOf(nodes, result.id)
        /\ result.id \in ReachedFrom(nodes, {start}, Len(nodes))
        /\ PresentAt(nodes, start) = {} => result.id = start
        /\ (unvisited # {} /\ invocations[k].data.max_depth > 0) =>
             \E i \in unvisited :
               /\ result.id = NodeOf(nodes, start).children[i]
               /\ \A l \in unvisited : i <= l

\* A descent from a node below the root whose only child is not a key came
\* back with that node, in a map where the root's first child is not a key.
C35_Witness ==
  \E k \in CallsOf("select_node_ucb1") :
    LET nodes == invocations[k].data.nodes
        start == invocations[k].data.current_node_id
    IN  /\ start # RootId
        /\ NodeOf(nodes, start).children # <<>>
        /\ PresentAt(nodes, start) = {}
        /\ NodeOf(nodes, RootId).children # <<>>
        /\ 1 \notin PresentAt(nodes, RootId)
        /\ invocations[k].env.result.id = start

\* ------------------------------------------------------- the tree grows
\* Sequence p is a prefix of sequence q.
IsPrefix(p, q) == Len(p) <= Len(q) /\ \A i \in DOMAIN p : q[i] = p[i]

\* Every node of tree before is in tree after with its id, parent and state.
KeepsNodes(before, after) ==
  \A i \in DOMAIN before :
    /\ HasNode(after, before[i].id)
    /\ NodeOf(after, before[i].id).parent = before[i].parent
    /\ NodeOf(after, before[i].id).state = before[i].state

\* C36: a phase message a step emits holds every node of the message the
\* step received, with the same id, parent and state; Select and Simulate
\* emit the nodes exactly as received; Expand leaves every received node as
\* it was except the selected one, of which only the children change, by
\* ids that were not in the tree added after the children it had.
C36_TreeOnlyGrows ==
  \A k \in DOMAIN invocations :
    \A j \in EmitsOf(k) :
      emits[j].topic \in PipelineTopics =>
        LET before == Nodes(invocations[k].data)
            after == Nodes(emits[j].data)
        IN  /\ KeepsNodes(before, after)
            /\ invocations[k].step \in {"SelectNode", "Simulate"} => after = before
            /\ invocations[k].step = "ExpandNode" =>
                 \A i \in DOMAIN before :
                   /\ after[i] = [before[i] EXCEPT !.children = after[i].children]
                   /\ IsPrefix(before[i].children, after[i].children)
                   /\ \A l \in DOMAIN after[i].children :
                        l > Len(before[i].children) =>
                          /\ after[i].children[l] \notin NodeIds(before)
                          /\ before[i].id = invocations[k].data.selected_node_id

\* A node that had a child was expanded, the tree went on through the
\* Simulator with the old child still first, and a later step emitted it.
C36_Witness ==
  \E k \in InvocationsOf("ExpandNode") : \E s \in InvocationsOf("Simulate") :
    /\ k < s
    /\ \E j \in OkEmitsOf(k) :
         /\ emits[j].topic = NodeExpanded
         /\ emits[j].data.nodes = invocations[s].data.nodes
         /\ \E i \in DOMAIN invocations[k].data.nodes :
              /\ invocations[k].data.nodes[i].children # <<>>
              /\ Len(emits[j].data.nodes[i].children)
                   > Len(invocations[k].data.nodes[i].children)
    /\ \E j \in OkEmitsOf(s) : emits[j].topic = SimulationCompleted

\* ------------------------------------------------- reports name a node
\* C37: every completed report emitted by the Controller, the Select handler
\* or the Expand handler carries an all_nodes map, and the node it selects
\* is a key of that map.
C37_ReportSelectsCarriedNode ==
  \A j \in DOMAIN emits :
    (/\ emits[j].ok
     /\ emits[j].topic = ReasoningCompleted
     /\ emits[j].step \in {"Controller", "SelectNode", "ExpandNode"})
      => /\ "all_nodes" \in DOMAIN emits[j].data
         /\ HasNode(emits[j].data.all_nodes, emits[j].data.selected_node_id)

====
